---- MODULE Spec2Model ----
(***************************************************************************)
(* Model of the md_editor rendering and text-transform pipeline            *)
(* (src/src/lib/markdown.ts) and of the App state derived from it.         *)
(*                                                                         *)
(* Text is a sequence of symbols.  A symbol is a one-character string, or  *)
(* a lexeme of the markdown / html surface syntax that the pipeline treats *)
(* as a unit (a raw html tag, a footnote marker).  Line splitting,         *)
(* trimming, word matching and the footnote rewriting are computed on      *)
(* these sequences the way the code computes them on strings.              *)
(***************************************************************************)
EXTENDS Integers, Sequences, FiniteSets, TLC

VARIABLES
    pc,                \* position of the modelled call sequence
    markdown,          \* document.content, the raw markdown text
    lineNumber,        \* the cursor line handed to handleCursorLineChange
    activeBlockIndex,  \* App state set from getBlockIndexForLine
    rendered,          \* RenderedMarkdown of the current content
    cosmicWords,       \* extractReadingWords(document.content)
    html,              \* html argument of applyBionicReading
    config,            \* UltraReadConfig argument of applyBionicReading
    previewHtml,       \* result of applyBionicReading
    cosmicWord,        \* word argument of renderCosmicWord
    cosmicWordHtml,    \* result of renderBionicWord
    extractedFootnotes, \* result of extractFootnotes
    contentBefore,     \* document.content when formatTables last ran
    status,            \* the status line of the App
    dirtyHtml,         \* html string last handed to DOMPurify.sanitize
    cleanHtml,         \* html string it returned
    lastIndex,         \* BIONIC_WORD_PATTERN.lastIndex, shared by all calls
    calls,             \* the calls made so far with their arguments and results
    headings,          \* result of extractHeadings
    checklistProgress, \* result of getChecklistProgress
    document,          \* document of the document store
    error,             \* error of the document store
    callArgument,      \* argument of the store action called last
    runtime,           \* the build of runPdfPrint and whether the Tauri runtime is present
    classList,         \* root.classList
    opened,            \* value runPdfPrint resolved to
    printActions,      \* the print actions started, with the class state at their start
    applied,           \* the SlashApplyResult applySlashCommand returned
    disk,              \* the content last written to each path
    saving,            \* App state saving
    save,              \* the saveDocument call in flight
    replace,           \* the handler in flight that replaces the document
    replacedDocument,  \* the document the last replacement removed
    userActions,       \* the number of user actions and timer firings so far
    cosmicOpen,        \* App state cosmicOpen
    cosmicPlaying,     \* App state cosmicPlaying
    cosmicIndex,       \* App state cosmicIndex
    interval           \* the word count the running interval was set up with, 0 without interval

vars == <<pc, markdown, lineNumber, activeBlockIndex, rendered, cosmicWords, html,
          config, previewHtml, cosmicWord, cosmicWordHtml, extractedFootnotes,
          contentBefore, status, dirtyHtml, cleanHtml, lastIndex, calls, headings,
          checklistProgress, document, error, callArgument, runtime, classList, opened,
          printActions, applied, disk, saving, save, replace, replacedDocument,
          userActions, cosmicOpen, cosmicPlaying, cosmicIndex, interval>>

\* A value for "not computed yet".
None == [none |-> TRUE]

Min(a, b) == IF a < b THEN a ELSE b
Max(a, b) == IF a > b THEN a ELSE b

RECURSIVE SeqsUpTo(_, _)
\* All sequences over S of length 0..n.
SeqsUpTo(S, n) ==
    IF n = 0 THEN {<<>>}
    ELSE LET shorter == SeqsUpTo(S, n - 1)
         IN  shorter \cup {Append(s, x) : s \in {t \in shorter : Len(t) = n - 1}, x \in S}

RECURSIVE Concat(_)
\* Concatenation of a sequence of sequences (Array.join("") on pieces).
Concat(ss) == IF ss = <<>> THEN <<>> ELSE Head(ss) \o Concat(Tail(ss))

(***************************************************************************)
(* String primitives used throughout markdown.ts.                          *)
(***************************************************************************)

LowerSeq == <<"a", "b", "c", "d", "e", "f", "g", "h", "i", "j", "k", "l", "m",
              "n", "o", "p", "q", "r", "s", "t", "u", "v", "w", "x", "y", "z">>
UpperSeq == <<"A", "B", "C", "D", "E", "F", "G", "H", "I", "J", "K", "L", "M",
              "N", "O", "P", "Q", "R", "S", "T", "U", "V", "W", "X", "Y", "Z">>
LowerLetters == {LowerSeq[i] : i \in 1 .. Len(LowerSeq)}
UpperLetters == {UpperSeq[i] : i \in 1 .. Len(UpperSeq)}
Digits == {"0", "1", "2", "3", "4", "5", "6", "7", "8", "9"}

\* Characters String.prototype.trim removes.
Whitespace == {" ", "\t", "\n", "\r"}

RECURSIVE TrimStart(_)
TrimStart(s) ==
    IF s # <<>> /\ Head(s) \in Whitespace THEN TrimStart(Tail(s)) ELSE s

RECURSIVE TrimEnd(_)
TrimEnd(s) ==
    IF s # <<>> /\ s[Len(s)] \in Whitespace
    THEN TrimEnd(SubSeq(s, 1, Len(s) - 1))
    ELSE s

\* String.prototype.trim
Trim(s) == TrimEnd(TrimStart(s))

RECURSIVE SplitFrom(_, _, _, _)
\* split(/\r?\n/u): "\n" ends the current line; a "\r" right before it belongs
\* to the separator.
SplitFrom(s, i, cur, acc) ==
    IF i > Len(s) THEN Append(acc, cur)
    ELSE IF s[i] = "\n"
         THEN LET line == IF cur # <<>> /\ cur[Len(cur)] = "\r"
                          THEN SubSeq(cur, 1, Len(cur) - 1)
                          ELSE cur
              IN  SplitFrom(s, i + 1, <<>>, Append(acc, line))
         ELSE SplitFrom(s, i + 1, Append(cur, s[i]), acc)

SplitLines(s) == SplitFrom(s, 1, <<>>, <<>>)

RECURSIVE JoinLines(_)
\* Array.join("\n")
JoinLines(ls) ==
    IF ls = <<>> THEN <<>>
    ELSE IF Len(ls) = 1 THEN ls[1]
    ELSE ls[1] \o <<"\n">> \o JoinLines(Tail(ls))

(***************************************************************************)
(* getBlockIndexForLine                                                    *)
(***************************************************************************)

RECURSIVE BlockScanMutant(_, _, _, _, _)
\* The scan without the reset of inBlock on a blank line.
BlockScanMutant(lines, i, finalLine, blockIndex, inBlock) ==
    IF i > finalLine THEN blockIndex
    ELSE LET isBlank == Len(Trim(lines[i + 1])) = 0
             start   == ~isBlank /\ ~inBlock
         IN  BlockScanMutant(lines, i + 1, finalLine,
                             IF start THEN blockIndex + 1 ELSE blockIndex,
                             IF start THEN TRUE ELSE inBlock)

RECURSIVE BlockScan(_, _, _, _, _)
\* The for loop of getBlockIndexForLine; i is the 0-based index of the code.
BlockScan(lines, i, finalLine, blockIndex, inBlock) ==
    IF i > finalLine THEN blockIndex
    ELSE LET isBlank == Len(Trim(lines[i + 1])) = 0
             start   == ~isBlank /\ ~inBlock
         IN  BlockScan(lines, i + 1, finalLine,
                       IF start THEN blockIndex + 1 ELSE blockIndex,
                       IF isBlank THEN FALSE ELSE IF start THEN TRUE ELSE inBlock)

getBlockIndexForLine(md, n) ==
    IF n <= 1 THEN 0
    ELSE LET lines     == SplitLines(md)
             finalLine == Min(n - 1, Len(lines) - 1)
         IN  Max(BlockScan(lines, 0, finalLine, -1, FALSE), 0)

(***************************************************************************)
(* Documents as DOMParser builds them.  A document is the sequence of the  *)
(* nodes below <body> in document order; parent is the position of the     *)
(* parent element in that sequence, 0 for <body>.  An html string is a     *)
(* document together with whether the string is written the way innerHTML  *)
(* writes it (canonical): parsing keeps the document, serialising always   *)
(* gives the canonical string.                                             *)
(***************************************************************************)

Elem(tag, parent, cls, attrs) ==
    [kind |-> "element", tag |-> tag, parent |-> parent, text |-> <<>>,
     cls |-> cls, attrs |-> attrs, blockIndex |-> -1, line |-> 0, endLine |-> 0]

TextNode(parent, text) ==
    [kind |-> "text", tag |-> "#text", parent |-> parent, text |-> text,
     cls |-> "", attrs |-> {}, blockIndex |-> -1, line |-> 0, endLine |-> 0]

\* new DOMParser().parseFromString(html, "text/html").body
ParseHtml(h) == h.dom

\* doc.body.innerHTML
InnerHtml(nodes) == [dom |-> nodes, canonical |-> TRUE]

RECURSIVE IsAncestorOrSelf(_, _, _)
\* a is e or an ancestor of e (0 is <body>, an ancestor of every node).
IsAncestorOrSelf(nodes, a, e) ==
    IF a = e THEN TRUE
    ELSE IF e = 0 THEN FALSE
    ELSE IsAncestorOrSelf(nodes, a, nodes[e].parent)

RECURSIVE TextContentFrom(_, _, _)
\* Node.textContent of element e (0: of <body>): the text nodes below it, in
\* document order.
TextContentFrom(nodes, e, i) ==
    IF i > Len(nodes) THEN <<>>
    ELSE (IF nodes[i].kind = "text" /\ IsAncestorOrSelf(nodes, e, nodes[i].parent)
          THEN nodes[i].text ELSE <<>>)
         \o TextContentFrom(nodes, e, i + 1)

TextContent(nodes, e) == TextContentFrom(nodes, e, 1)

(***************************************************************************)
(* Bionic reading: shouldSkipBionicNode, transformTextNode,                *)
(* applyBionicReading.                                                     *)
(***************************************************************************)

\* BIONIC_SKIP_SELECTOR
BIONIC_SKIP_SELECTOR == {"pre", "code", "kbd", "samp", "a", "button", "input", "textarea"}

\* BIONIC_WORD_PATTERN: its two character classes, [A-Za-z0-9] and
\* [A-Za-z0-9'-], over the ASCII characters (the Latin-1 letters and the curly
\* apostrophe of the pattern do not occur in the modelled texts).
WordStartChars == LowerLetters \cup UpperLetters \cup Digits
WordContChars == WordStartChars \cup {"'", "-"}

RECURSIVE WordEnd(_, _)
\* Last position of the greedy run [..]* that starts at position i.
WordEnd(s, i) ==
    IF i + 1 <= Len(s) /\ s[i + 1] \in WordContChars THEN WordEnd(s, i + 1) ELSE i

RECURSIVE MatchFrom(_, _, _)
\* The matches of the global pattern from position i on (1-based), leftmost
\* first; index is the 0-based match.index.
MatchFrom(s, i, acc) ==
    IF i > Len(s) THEN acc
    ELSE IF s[i] \in WordStartChars
         THEN LET e == WordEnd(s, i)
              IN  MatchFrom(s, e + 1, Append(acc, [index |-> i - 1, word |-> SubSeq(s, i, e)]))
         ELSE MatchFrom(s, i + 1, acc)

\* Array.from(input.matchAll(BIONIC_WORD_PATTERN))
\* matchAll starts at the lastIndex of the pattern it is given.
MatchAll(s) == MatchFrom(s, lastIndex + 1, <<>>)

\* String.prototype.slice(from, to) and slice(from), 0-based.
Slice(s, from, to) == SubSeq(s, from + 1, to)
SliceFrom(s, from) == SubSeq(s, from + 1, Len(s))

\* clamp
clamp(value, min, max) == Min(max, Max(min, value))

\* Math.round of q / d for d > 0: floor(q / d + 1/2).
RoundDiv(q, d) == (2 * q + d) \div (2 * d)

\* Fixation is held in hundredths, minWordLength in halves (3.5 is 7).
MinFixation == 20
MaxFixation == 80
MinMinWordLength == 2
MaxMinWordLength == 12

\* clamp(config.fixation, 0.2, 0.8), in hundredths
ClampedFixation(c) == clamp(c.fixation, MinFixation, MaxFixation)

\* clamp(Math.round(config.minWordLength), 2, 12)
ClampedMinWordLength(c) ==
    clamp(RoundDiv(c.minWordLength, 2), MinMinWordLength, MaxMinWordLength)

\* clamp(Math.round(word.length * fixation), 1, word.length)
FocusLength(len, fixation) == clamp(RoundDiv(len * fixation, 100), 1, len)

TextPiece(text) == [type |-> "text", focus |-> <<>>, rest |-> text]
WordPiece(focus, rest) == [type |-> "word", focus |-> focus, rest |-> rest]

\* The piece emitted for one matched word.
WordPieceMutant(word, fixation, minWordLength) ==
    IF Len(word) > minWordLength
    THEN LET focusLength == FocusLength(Len(word), fixation)
         IN  WordPiece(Slice(word, 0, focusLength), SliceFrom(word, focusLength))
    ELSE TextPiece(word)

WordPieceOf(word, fixation, minWordLength) ==
    IF Len(word) >= minWordLength
    THEN LET focusLength == FocusLength(Len(word), fixation)
         IN  WordPiece(Slice(word, 0, focusLength), SliceFrom(word, focusLength))
    ELSE TextPiece(word)

RECURSIVE PiecesMutant(_, _, _, _, _, _, _)
\* The loop advancing the cursor only past the focus part.
PiecesMutant(input, matches, k, cursor, frag, fixation, minWordLength) ==
    IF k > Len(matches)
    THEN IF cursor < Len(input) THEN Append(frag, TextPiece(SliceFrom(input, cursor))) ELSE frag
    ELSE LET index == matches[k].index
             word  == matches[k].word
             f1    == IF index > cursor
                      THEN Append(frag, TextPiece(Slice(input, cursor, index)))
                      ELSE frag
             piece == WordPieceOf(word, fixation, minWordLength)
         IN  PiecesMutant(input, matches, k + 1, index + Len(piece.focus),
                          Append(f1, piece), fixation, minWordLength)

RECURSIVE Pieces(_, _, _, _, _, _, _)
\* matches.forEach(...) and the trailing text of transformTextNode.
Pieces(input, matches, k, cursor, frag, fixation, minWordLength) ==
    IF k > Len(matches)
    THEN IF cursor < Len(input) THEN Append(frag, TextPiece(SliceFrom(input, cursor))) ELSE frag
    ELSE LET index == matches[k].index
             word  == matches[k].word
             f1    == IF index > cursor
                      THEN Append(frag, TextPiece(Slice(input, cursor, index)))
                      ELSE frag
         IN  Pieces(input, matches, k + 1, index + Len(word),
                    Append(f1, WordPieceOf(word, fixation, minWordLength)),
                    fixation, minWordLength)

\* transformTextNode: replaced tells whether the text node is replaced (FALSE
\* on the two early returns), pieces is the fragment that replaces it.
transformTextNode(input, fixation, minWordLength) ==
    IF Trim(input) = <<>> THEN [replaced |-> FALSE, pieces |-> <<>>]
    ELSE IF MatchAll(input) = <<>> THEN [replaced |-> FALSE, pieces |-> <<>>]
    ELSE [replaced |-> TRUE,
          pieces |-> Pieces(input, MatchAll(input), 1, 0, <<>>, fixation, minWordLength)]

RECURSIVE FragmentNodes(_, _, _, _)
\* The nodes of the fragment, appended to the document built so far.
FragmentNodes(pieces, k, parent, out) ==
    IF k > Len(pieces) THEN out
    ELSE LET p == pieces[k]
         IN  IF p.type = "text"
             THEN FragmentNodes(pieces, k + 1, parent, Append(out, TextNode(parent, p.rest)))
             ELSE LET wrapper == Len(out) + 1
                      focus   == <<Elem("span", parent, "bionic-word", {}),
                                   Elem("strong", wrapper, "bionic-focus", {}),
                                   TextNode(wrapper + 1, p.focus)>>
                      rest    == IF Len(p.rest) > 0
                                 THEN <<Elem("span", wrapper, "bionic-rest", {}),
                                        TextNode(wrapper + 3, p.rest)>>
                                 ELSE <<>>
                  IN  FragmentNodes(pieces, k + 1, parent, out \o focus \o rest)

RECURSIVE Closest(_, _, _)
\* Element.closest(selector) is not null; 0 is <body>, which matches no
\* selector used here.
Closest(nodes, e, selector) ==
    IF e = 0 THEN FALSE
    ELSE IF nodes[e].tag \in selector THEN TRUE
    ELSE Closest(nodes, nodes[e].parent, selector)

\* Only the parent element is tested.
shouldSkipMutant(nodes, i) ==
    nodes[i].parent # 0 /\ nodes[nodes[i].parent].tag \in BIONIC_SKIP_SELECTOR

\* Every text node the walker reaches has a parent element (at least <body>).
shouldSkipBionicNode(nodes, i) == Closest(nodes, nodes[i].parent, BIONIC_SKIP_SELECTOR)

RECURSIVE ReplaceTextNodes(_, _, _, _, _, _)
\* The walker's collection of text nodes and textNodes.forEach(transformTextNode):
\* the document with every collected text node replaced by its fragment; map is
\* old position -> new position.
ReplaceTextNodes(nodes, i, map, out, fixation, minWordLength) ==
    IF i > Len(nodes) THEN out
    ELSE LET n      == nodes[i]
             parent == IF n.parent = 0 THEN 0 ELSE map[n.parent]
             frag   == IF n.kind = "text" /\ ~shouldSkipBionicNode(nodes, i)
                       THEN transformTextNode(n.text, fixation, minWordLength)
                       ELSE [replaced |-> FALSE, pieces |-> <<>>]
         IN  IF frag.replaced
             THEN ReplaceTextNodes(nodes, i + 1, Append(map, 0),
                                   FragmentNodes(frag.pieces, 1, parent, out),
                                   fixation, minWordLength)
             ELSE ReplaceTextNodes(nodes, i + 1, Append(map, Len(out) + 1),
                                   Append(out, [n EXCEPT !.parent = parent]),
                                   fixation, minWordLength)

\* applyBionicReading past the enabled test.
BionicTransform(h, c) ==
    InnerHtml(ReplaceTextNodes(ParseHtml(h), 1, <<>>, <<>>,
                               ClampedFixation(c), ClampedMinWordLength(c)))

\* applyBionicReading without the early return.
applyBionicReadingMutant(h, c) == BionicTransform(h, c)

applyBionicReading(h, c) == IF ~c.enabled THEN h ELSE BionicTransform(h, c)

(***************************************************************************)
(* Footnote pre-processor: normalizeFootnoteId, extractFootnotes.          *)
(***************************************************************************)

\* FOOTNOTE_REF_TOKEN_PREFIX and the token's closing "@@", each one symbol.
FOOTNOTE_REF_TOKEN_PREFIX == "@@FOOTNOTE_REF:"
TokenEnd == "@@"

\* [a-z0-9_-]
IdChars == LowerLetters \cup Digits \cup {"_", "-"}

\* String.prototype.toLowerCase, per character.
LowerChar(ch) ==
    IF ch \in UpperLetters
    THEN LowerSeq[CHOOSE i \in 1 .. Len(UpperSeq) : UpperSeq[i] = ch]
    ELSE ch
ToLowerCase(s) == [i \in 1 .. Len(s) |-> LowerChar(s[i])]

RECURSIVE ReplaceNonIdRuns(_, _)
\* replace(/[^a-z0-9_-]+/gu, "-"): every maximal run of other characters
\* becomes one "-"; inRun tells that the previous character was replaced.
ReplaceNonIdRuns(s, inRun) ==
    IF s = <<>> THEN <<>>
    ELSE IF Head(s) \in IdChars THEN <<Head(s)>> \o ReplaceNonIdRuns(Tail(s), FALSE)
    ELSE IF inRun THEN ReplaceNonIdRuns(Tail(s), TRUE)
    ELSE <<"-">> \o ReplaceNonIdRuns(Tail(s), TRUE)

normalizeFootnoteId(value) == ReplaceNonIdRuns(Trim(ToLowerCase(value)), FALSE)

\* Position of the first "]" at or after position i, 0 when there is none.
RECURSIVE FirstBracket(_, _)
FirstBracket(s, i) ==
    IF i > Len(s) THEN 0 ELSE IF s[i] = "]" THEN i ELSE FirstBracket(s, i + 1)

\* line.match(FOOTNOTE_DEFINITION_PATTERN), /^\[\^([^\]]+)\]:\s*(.*)$/u:
\* matched, and the groups 1 (id) and 2 (rest).
MatchDefinition(line) ==
    LET close == IF Len(line) >= 2 /\ line[1] = "[" /\ line[2] = "^"
                 THEN FirstBracket(line, 3) ELSE 0
    IN  IF close >= 4 /\ close < Len(line) /\ line[close + 1] = ":"
        THEN [matched |-> TRUE,
              id      |-> SubSeq(line, 3, close - 1),
              rest    |-> TrimStart(SubSeq(line, close + 2, Len(line)))]
        ELSE [matched |-> FALSE, id |-> <<>>, rest |-> <<>>]

\* /^\s{2,}|\t/u.test(continuation): two leading whitespace characters, or a
\* tab anywhere in the line.
IsContinuation(line) ==
    \/ Len(line) >= 2 /\ line[1] \in Whitespace /\ line[2] \in Whitespace
    \/ \E i \in 1 .. Len(line) : line[i] = "\t"

RECURSIVE ContinuationEnd(_, _)
\* The while loop: the value of cursor (1-based here) when it stops.
ContinuationEnd(lines, cursor) ==
    IF cursor <= Len(lines) /\ IsContinuation(lines[cursor])
    THEN ContinuationEnd(lines, cursor + 1)
    ELSE cursor

RECURSIVE JoinWith(_, _)
\* Array.join(sep)
JoinWith(parts, sep) ==
    IF parts = <<>> THEN <<>>
    ELSE IF Len(parts) = 1 THEN parts[1]
    ELSE parts[1] \o sep \o JoinWith(Tail(parts), sep)

\* Map.prototype.set on the definitions, a function from id to text.
MapSet(defs, id, text) ==
    [k \in DOMAIN defs \cup {id} |-> IF k = id THEN text ELSE defs[k]]

EmptyMap == [k \in {} |-> <<>>]

RECURSIVE ScanDefinitions(_, _, _, _)
\* The for loop of extractFootnotes over the lines (index is 1-based here).
ScanDefinitions(lines, index, definitions, bodyLines) ==
    IF index > Len(lines)
    THEN [definitions |-> definitions, bodyLines |-> bodyLines]
    ELSE LET line       == lines[index]
             definition == MatchDefinition(line)
             rawId      == normalizeFootnoteId(definition.id)
         IN  IF ~definition.matched \/ rawId = <<>>
             THEN ScanDefinitions(lines, index + 1, definitions, Append(bodyLines, line))
             ELSE LET cursor == ContinuationEnd(lines, index + 1)
                      parts  == <<definition.rest>> \o
                                [k \in 1 .. cursor - index - 1 |-> Trim(lines[index + k])]
                  IN  ScanDefinitions(lines, cursor,
                                      MapSet(definitions, rawId, Trim(JoinWith(parts, <<" ">>))),
                                      bodyLines)

RECURSIVE ReplaceReferences(_, _)
\* replace(FOOTNOTE_REFERENCE_PATTERN, ...) with /\[\^([^\]]+)\]/gu, from
\* position i on.
ReplaceReferences(s, i) ==
    IF i > Len(s) THEN <<>>
    ELSE LET close == IF s[i] = "[" /\ i < Len(s) /\ s[i + 1] = "^"
                      THEN FirstBracket(s, i + 2) ELSE 0
         IN  IF close > i + 2
             THEN LET normalized == normalizeFootnoteId(SubSeq(s, i + 2, close - 1))
                  IN  (IF normalized # <<>>
                       THEN <<FOOTNOTE_REF_TOKEN_PREFIX>> \o normalized \o <<TokenEnd>>
                       ELSE SubSeq(s, i, close))
                      \o ReplaceReferences(s, close + 1)
             ELSE <<s[i]>> \o ReplaceReferences(s, i + 1)

extractFootnotes(md) ==
    LET scanned == ScanDefinitions(SplitLines(md), 1, EmptyMap, <<>>)
    IN  [bodyMarkdown |-> ReplaceReferences(JoinLines(scanned.bodyLines), 1),
         definitions  |-> scanned.definitions]

(***************************************************************************)
(* marked.parse and marked.parseInline (gfm, breaks off), followed by the  *)
(* html parse of their output.  The parser is a collaborator of the        *)
(* pipeline; it is modelled on the line forms the documents of the model   *)
(* are made of: blank lines, "# " headings, "> " quotes (one paragraph),   *)
(* "- " bullet items (inline content), lines that open with a raw          *)
(* <script> (an html block), and paragraph text with inline raw html and   *)
(* code spans.  Elements carry the source lines they were produced from    *)
(* in line and endLine.                                                    *)
(***************************************************************************)

\* Raw html tags, each one symbol of the text.
RawOpenTags == {"<script>", "<style>", "<iframe>", "<b onclick>", "<a href=javascript:>"}
RawCloseTags == {"</script>", "</style>", "</iframe>", "</b>", "</a>"}

OpenTagOf(sym) ==
    CASE sym = "<script>" -> [tag |-> "script", attrs |-> {}]
      [] sym = "<style>" -> [tag |-> "style", attrs |-> {}]
      [] sym = "<iframe>" -> [tag |-> "iframe", attrs |-> {}]
      [] sym = "<b onclick>" -> [tag |-> "b", attrs |-> {<<"onclick", <<"x">>>>}]
      [] sym = "<a href=javascript:>" -> [tag |-> "a", attrs |-> {<<"href", <<"javascript:", "x">>>>}]

\* The character appended to the text node being written below element cur.
AppendChar(out, cur, ch) ==
    IF out # <<>> /\ out[Len(out)].kind = "text" /\ out[Len(out)].parent = cur
    THEN [out EXCEPT ![Len(out)].text = Append(@, ch)]
    ELSE Append(out, TextNode(cur, <<ch>>))

\* The backtick character (TLA+ strings cannot hold it), one symbol.
Backtick == "&#96;"

\* Position of the next backtick at or after position i, 0 when there is none.
RECURSIVE NextBacktick(_, _)
NextBacktick(s, i) ==
    IF i > Len(s) THEN 0 ELSE IF s[i] = Backtick THEN i ELSE NextBacktick(s, i + 1)

\* The text written after the last node below element cur.
AppendText(out, cur, text) ==
    IF out # <<>> /\ out[Len(out)].kind = "text" /\ out[Len(out)].parent = cur
    THEN [out EXCEPT ![Len(out)].text = @ \o text]
    ELSE Append(out, TextNode(cur, text))

\* The last position of the text that starts at position i and runs up to
\* the next raw tag or backtick (the symbol at i is taken as text).
PlainRunEnd(s, i) ==
    CHOOSE e \in i .. Len(s) :
        /\ \A k \in i + 1 .. e : s[k] \notin RawOpenTags \cup RawCloseTags \cup {Backtick}
        /\ e < Len(s) => s[e + 1] \in RawOpenTags \cup RawCloseTags \cup {Backtick}

RECURSIVE InlineFrom(_, _, _, _, _)
\* Inline content s from position i on, written below element cur; base is the
\* element the content belongs to.
InlineFrom(s, i, cur, base, out) ==
    IF i > Len(s) THEN out
    ELSE IF s[i] \in RawOpenTags
    THEN InlineFrom(s, i + 1, Len(out) + 1, base,
                    Append(out, Elem(OpenTagOf(s[i]).tag, cur, "", OpenTagOf(s[i]).attrs)))
    ELSE IF s[i] \in RawCloseTags
    THEN InlineFrom(s, i + 1, IF cur = base THEN cur ELSE out[cur].parent, base, out)
    ELSE IF s[i] = Backtick /\ NextBacktick(s, i + 1) > i + 1
    THEN LET close == NextBacktick(s, i + 1)
         IN  InlineFrom(s, close + 1, cur, base,
                        out \o <<Elem("code", cur, "", {}),
                                 TextNode(Len(out) + 1, SubSeq(s, i + 1, close - 1))>>)
    ELSE LET e == PlainRunEnd(s, i)
         IN  InlineFrom(s, e + 1, cur, base, AppendText(out, cur, SubSeq(s, i, e)))

\* The nodes of inline content s as children of element parent.
Inline(s, parent, out) == InlineFrom(s, 1, parent, parent, out)

\* marked.parseInline(source), parsed: a document of inline nodes.
parseInline(source) == Inline(source, 0, <<>>)

\* Block-level line forms.
IsBlank(line) == Trim(line) = <<>>
IsHeading(line) == Len(line) >= 2 /\ line[1] = "#" /\ line[2] = " "
IsQuote(line) == Len(line) >= 1 /\ line[1] = ">"
IsBullet(line) == Len(line) >= 2 /\ line[1] = "-" /\ line[2] = " "
IsHtmlBlock(line) == Len(line) >= 1 /\ line[1] = "<script>"

HeadingText(line) == Trim(SubSeq(line, 3, Len(line)))
QuoteText(line) ==
    IF Len(line) >= 2 /\ line[2] = " " THEN SubSeq(line, 3, Len(line))
    ELSE SubSeq(line, 2, Len(line))
BulletText(line) == SubSeq(line, 3, Len(line))

Block(type, text, first) ==
    [type |-> type, text |-> text, items |-> <<>>, loose |-> FALSE,
     first |-> first, last |-> first]

Item(text, first) == [text |-> text, first |-> first, last |-> first]

\* The last block with its text (or the text of its last item) continued by
\* line n.
Continue(blocks, text, n) ==
    LET b == blocks[Len(blocks)]
    IN  [blocks EXCEPT ![Len(blocks)] =
            IF b.type = "list"
            THEN [b EXCEPT !.items[Len(b.items)].text = @ \o <<"\n">> \o text,
                           !.items[Len(b.items)].last = n,
                           !.last = n]
            ELSE [b EXCEPT !.text = @ \o <<"\n">> \o text, !.last = n]]

RECURSIVE GroupLines(_, _, _, _, _)
\* The block tokens of the lines: open tells that the last block can still be
\* continued, gap that a blank line followed the last item of an open list.
GroupLines(lines, n, blocks, open, gap) ==
    IF n > Len(lines) THEN blocks
    ELSE LET line == lines[n]
             last == IF open THEN blocks[Len(blocks)].type ELSE "none"
         IN  IF IsBlank(line)
             THEN GroupLines(lines, n + 1, blocks, open /\ last = "list", open /\ last = "list")
             ELSE IF IsHeading(line)
             THEN GroupLines(lines, n + 1,
                             Append(blocks, Block("heading", HeadingText(line), n)), FALSE, FALSE)
             ELSE IF IsHtmlBlock(line)
             THEN GroupLines(lines, n + 1, Append(blocks, Block("html", line, n)), FALSE, FALSE)
             ELSE IF IsQuote(line)
             THEN IF last = "blockquote"
                  THEN GroupLines(lines, n + 1, Continue(blocks, QuoteText(line), n), TRUE, FALSE)
                  ELSE GroupLines(lines, n + 1,
                                  Append(blocks, Block("blockquote", QuoteText(line), n)),
                                  TRUE, FALSE)
             ELSE IF IsBullet(line)
             THEN IF last = "list"
                  THEN LET b == blocks[Len(blocks)]
                       IN  GroupLines(lines, n + 1,
                               [blocks EXCEPT ![Len(blocks)] =
                                   [b EXCEPT !.items = Append(@, Item(BulletText(line), n)),
                                             !.loose = @ \/ gap,
                                             !.last = n]],
                               TRUE, FALSE)
                  ELSE GroupLines(lines, n + 1,
                           Append(blocks,
                                  [Block("list", <<>>, n) EXCEPT
                                      !.items = <<Item(BulletText(line), n)>>]),
                           TRUE, FALSE)
             ELSE IF last \in {"paragraph", "blockquote"} \/ (last = "list" /\ ~gap)
             THEN GroupLines(lines, n + 1, Continue(blocks, line, n), TRUE, FALSE)
             ELSE GroupLines(lines, n + 1, Append(blocks, Block("paragraph", line, n)),
                             TRUE, FALSE)

\* An element produced from the source lines first..last.
BlockElem(tag, parent, first, last) ==
    [Elem(tag, parent, "", {}) EXCEPT !.line = first, !.endLine = last]

Newline(parent) == TextNode(parent, <<"\n">>)

RECURSIVE EmitItems(_, _, _, _, _)
\* <li>..</li>\n for each item of a list; ul is the position of the list.
EmitItems(items, k, loose, ul, out) ==
    IF k > Len(items) THEN out
    ELSE LET it == items[k]
             li == Len(out) + 1
             withLi == Append(out, BlockElem("li", ul, it.first, it.last))
             body == IF loose
                     THEN Append(Inline(it.text, li + 1,
                                        Append(withLi, BlockElem("p", li, it.first, it.last))),
                                 Newline(li))
                     ELSE Inline(it.text, li, withLi)
         IN  EmitItems(items, k + 1, loose, ul, Append(body, Newline(ul)))

RECURSIVE EmitBlocks(_, _, _)
\* The html marked writes for the block tokens, parsed.
EmitBlocks(blocks, k, out) ==
    IF k > Len(blocks) THEN out
    ELSE LET b == blocks[k]
             e == Len(out) + 1
             next ==
                IF b.type = "heading"
                THEN Inline(b.text, e, Append(out, BlockElem("h1", 0, b.first, b.last)))
                ELSE IF b.type = "paragraph"
                THEN Inline(b.text, e, Append(out, BlockElem("p", 0, b.first, b.last)))
                ELSE IF b.type = "blockquote"
                THEN Append(Inline(b.text, e + 2,
                                out \o <<BlockElem("blockquote", 0, b.first, b.last),
                                         Newline(e),
                                         BlockElem("p", e, b.first, b.last)>>),
                            Newline(e))
                ELSE IF b.type = "list"
                THEN EmitItems(b.items, 1, b.loose, e,
                               out \o <<BlockElem("ul", 0, b.first, b.last), Newline(e)>>)
                ELSE Inline(b.text, 0, out)
         IN  EmitBlocks(blocks, k + 1, Append(next, Newline(0)))

\* marked.parse(bodyMarkdown), parsed.
parse(bodyMarkdown) ==
    EmitBlocks(GroupLines(SplitLines(bodyMarkdown), 1, <<>>, FALSE, FALSE), 1, <<>>)

(***************************************************************************)
(* Footnote post-processor: applyFootnotes, on the parsed html.            *)
(***************************************************************************)

RECURSIVE IdRunEnd(_, _)
\* Last position of the run [a-z0-9_-]* that ends before position i + 1 ...
\* starting the scan at position i: i - 1 when s[i] is no id character.
IdRunEnd(s, i) ==
    IF i <= Len(s) /\ s[i] \in IdChars THEN IdRunEnd(s, i + 1) ELSE i - 1

\* The position of the last id pushed, for an id that is present.
IndexOfMutant(order, id) ==
    IF \E k \in 1 .. Len(order) : order[k] = id THEN Len(order) ELSE 0

\* Array.prototype.indexOf, 1-based; 0 when absent.
IndexOf(order, id) ==
    IF \E k \in 1 .. Len(order) : order[k] = id
    THEN CHOOSE k \in 1 .. Len(order) : order[k] = id /\ \A j \in 1 .. k - 1 : order[j] # id
    ELSE 0

DigitSeq == <<"0", "1", "2", "3", "4", "5", "6", "7", "8", "9">>

RECURSIVE NumberText(_)
\* String(number) for number >= 0
NumberText(n) ==
    IF n < 10 THEN <<DigitSeq[n + 1]>> ELSE NumberText(n \div 10) \o <<DigitSeq[(n % 10) + 1]>>

\* <sup class="footnote-ref" id="fnref-ID"><a href="#fn-ID">[N]</a></sup>
ReferenceNodes(id, number, parent, at) ==
    <<Elem("sup", parent, "footnote-ref", {<<"id", <<"fnref-">> \o id>>}),
      Elem("a", at + 1, "", {<<"href", <<"#fn-">> \o id>>}),
      TextNode(at + 2, <<"[">> \o NumberText(number) \o <<"]">>)>>

FlushText(out, parent, cur) == IF cur = <<>> THEN out ELSE Append(out, TextNode(parent, cur))

RECURSIVE ReplaceTokens(_, _, _, _, _, _)
\* rawHtml.replace(referenceRegex, ...) inside one text: the nodes written for
\* it and the order array afterwards.  cur is the text read since the last
\* token.
ReplaceTokens(text, i, cur, parent, out, order) ==
    IF i > Len(text) THEN [out |-> FlushText(out, parent, cur), order |-> order]
    ELSE LET idEnd == IF text[i] = FOOTNOTE_REF_TOKEN_PREFIX THEN IdRunEnd(text, i + 1) ELSE 0
         IN  IF idEnd > i /\ idEnd < Len(text) /\ text[idEnd + 1] = TokenEnd
             THEN LET normalized == normalizeFootnoteId(SubSeq(text, i + 1, idEnd))
                      order2     == IF IndexOf(order, normalized) = 0
                                    THEN Append(order, normalized) ELSE order
                      number     == IndexOf(order2, normalized)
                      flushed    == FlushText(out, parent, cur)
                  IN  IF normalized = <<>>
                      THEN ReplaceTokens(text, idEnd + 2, cur, parent, out, order)
                      ELSE ReplaceTokens(text, idEnd + 2, <<>>, parent,
                                         flushed \o ReferenceNodes(normalized, number, parent,
                                                                   Len(flushed)),
                                         order2)
             ELSE ReplaceTokens(text, i + 1, Append(cur, text[i]), parent, out, order)

RECURSIVE ReplaceAllTokens(_, _, _, _, _)
\* The replace over the whole html, in document order.
ReplaceAllTokens(nodes, i, map, out, order) ==
    IF i > Len(nodes) THEN [out |-> out, order |-> order]
    ELSE LET n      == nodes[i]
             parent == IF n.parent = 0 THEN 0 ELSE map[n.parent]
         IN  IF n.kind = "text"
             THEN LET r == ReplaceTokens(n.text, 1, <<>>, parent, out, order)
                  IN  ReplaceAllTokens(nodes, i + 1, Append(map, 0), r.out, r.order)
             ELSE ReplaceAllTokens(nodes, i + 1, Append(map, Len(out) + 1),
                                   Append(out, [n EXCEPT !.parent = parent]), order)

MissingFootnote == <<"M", "i", "s", "s", "i", "n", "g", " ",
                     "f", "o", "o", "t", "n", "o", "t", "e", ":", " ">>

\* The return arrow of the back reference, one symbol.
BackrefArrow == "&larrhk;"

RECURSIVE FootnoteItems(_, _, _, _, _)
\* order.map(...).join(""): one <li> per id; ol is the position of the list.
FootnoteItems(order, k, definitions, ol, out) ==
    IF k > Len(order) THEN out
    ELSE LET id     == order[k]
             source == IF id \in DOMAIN definitions THEN definitions[id] ELSE <<>>
             li     == Len(out) + 1
             body   == Inline(IF source # <<>> THEN source ELSE MissingFootnote \o id, li,
                              Append(out, Elem("li", ol, "", {<<"id", <<"fn-">> \o id>>})))
             spaced == AppendChar(body, li, " ")
         IN  FootnoteItems(order, k + 1, definitions, ol,
                           spaced \o <<Elem("a", li, "footnote-backref",
                                            {<<"href", <<"#fnref-">> \o id>>}),
                                       TextNode(Len(spaced) + 1, <<BackrefArrow>>)>>)

\* applyFootnotes without the early return for an empty order.
applyFootnotesMutant(rawHtml, definitions) ==
    LET replaced == ReplaceAllTokens(rawHtml, 1, <<>>, <<>>, <<>>)
        section  == Len(replaced.out) + 1
    IN  FootnoteItems(replaced.order, 1, definitions, section + 2,
                      replaced.out \o <<Elem("section", 0, "footnotes", {}),
                                        Elem("hr", section, "", {}),
                                        Elem("ol", section, "", {})>>)

applyFootnotes(rawHtml, definitions) ==
    LET replaced == ReplaceAllTokens(rawHtml, 1, <<>>, <<>>, <<>>)
        section  == Len(replaced.out) + 1
    IN  IF Len(replaced.order) = 0 THEN replaced.out
        ELSE FootnoteItems(replaced.order, 1, definitions, section + 2,
                           replaced.out \o <<Elem("section", 0, "footnotes", {}),
                                             Elem("hr", section, "", {}),
                                             Elem("ol", section, "", {})>>)

(***************************************************************************)
(* DOMPurify.sanitize with FORBID_TAGS and the html profile.               *)
(***************************************************************************)

\* FORBID_TAGS of the call in renderMarkdown
FORBID_TAGS == {"script", "style", "iframe"}

\* The tags of the html profile that occur in the model (the profile lists
\* style, and neither script nor iframe).
HtmlProfileTags ==
    {"h1", "h2", "h3", "h4", "h5", "h6", "p", "pre", "blockquote", "ul", "ol", "li",
     "table", "hr", "code", "b", "a", "em", "strong", "span", "sup", "section", "div",
     "style"}

\* Tags removed together with their content (the sanitizer's FORBID_CONTENTS).
ForbidContents == {"script", "style", "iframe"}

\* Attributes of the html profile, and those that hold a URI.
AllowedAttrs == {"href", "id", "class", "title"}
UriAttrs == {"href", "src"}

KeepsAttr(attr) ==
    /\ attr[1] \in AllowedAttrs
    /\ ~(attr[1] \in UriAttrs /\ attr[2] # <<>> /\ attr[2][1] = "javascript:")

RECURSIVE SanitizeFrom(_, _, _, _, _)
\* map: old position -> new position of a kept element, the new parent of the
\* children of an unwrapped element, or -1 below a removed element.
SanitizeFrom(nodes, i, map, out, forbid) ==
    IF i > Len(nodes) THEN out
    ELSE LET n      == nodes[i]
             parent == IF n.parent = 0 THEN 0 ELSE map[n.parent]
             banned == n.kind = "element" /\ (n.tag \in forbid \/ n.tag \notin HtmlProfileTags)
         IN  IF parent = -1 THEN SanitizeFrom(nodes, i + 1, Append(map, -1), out, forbid)
             ELSE IF banned
             THEN SanitizeFrom(nodes, i + 1,
                               Append(map, IF n.tag \in ForbidContents THEN -1 ELSE parent),
                               out, forbid)
             ELSE SanitizeFrom(nodes, i + 1, Append(map, Len(out) + 1),
                               Append(out, [n EXCEPT !.parent = parent,
                                                     !.attrs = {a \in @ : KeepsAttr(a)}]),
                               forbid)

\* DOMPurify.sanitize(html, { FORBID_TAGS, USE_PROFILES: { html: true } })
sanitize(nodes) == SanitizeFrom(nodes, 1, <<>>, <<>>, FORBID_TAGS)

(***************************************************************************)
(* renderMarkdown and extractReadingWords                                  *)
(***************************************************************************)

\* BLOCK_SELECTOR
BLOCK_SELECTOR ==
    {"h1", "h2", "h3", "h4", "h5", "h6", "p", "pre", "blockquote", "ul", "ol", "table", "hr"}

\* doc.body.querySelectorAll(selector): the matching elements in document order.
QuerySelectorAll(nodes, selector) ==
    SelectSeq([i \in 1 .. Len(nodes) |-> i],
              LAMBDA i : nodes[i].kind = "element" /\ nodes[i].tag \in selector)

\* setAttribute("data-block-index", String(index)), counting from 1.
SetBlockIndexesMutant(nodes, blocks) ==
    [i \in 1 .. Len(nodes) |->
        IF \E k \in 1 .. Len(blocks) : blocks[k] = i
        THEN [nodes[i] EXCEPT !.blockIndex = CHOOSE k \in 1 .. Len(blocks) : blocks[k] = i]
        ELSE nodes[i]]

\* blocks.forEach((element, index) => element.setAttribute("data-block-index", index))
SetBlockIndexes(nodes, blocks) ==
    [i \in 1 .. Len(nodes) |->
        IF \E k \in 1 .. Len(blocks) : blocks[k] = i
        THEN [nodes[i] EXCEPT !.blockIndex = (CHOOSE k \in 1 .. Len(blocks) : blocks[k] = i) - 1]
        ELSE nodes[i]]

\* The block annotation of the sanitized html.
Annotate(sanitizedHtml) ==
    LET blocks == QuerySelectorAll(sanitizedHtml, BLOCK_SELECTOR)
    IN  [html       |-> InnerHtml(SetBlockIndexes(sanitizedHtml, blocks)),
         blockCount |-> Len(blocks)]

\* The footnotes applied to html that was sanitized before.
renderMarkdownMutant(md) ==
    LET extracted == extractFootnotes(md)
    IN  Annotate(applyFootnotes(sanitize(parse(extracted.bodyMarkdown)),
                                extracted.definitions))

renderMarkdown(md) ==
    LET extracted     == extractFootnotes(md)
        rawHtml       == parse(extracted.bodyMarkdown)
        withFootnotes == applyFootnotes(rawHtml, extracted.definitions)
        sanitizedHtml == sanitize(withFootnotes)
    IN  Annotate(sanitizedHtml)

\* (text.match(BIONIC_WORD_PATTERN) ?? []).map(trim).filter(Boolean)
\* match with a global pattern starts at 0 whatever lastIndex was.
MatchWords(text) ==
    LET found == MatchFrom(text, 1, <<>>)
    IN  SelectSeq([k \in 1 .. Len(found) |-> Trim(found[k].word)], LAMBDA w : w # <<>>)

\* lastIndex left where the first match ended, as exec leaves it.
LastIndexAfterMatchMutant(text) ==
    LET found == MatchFrom(text, 1, <<>>)
    IN  IF found = <<>> THEN 0 ELSE found[1].index + Len(found[1].word)

\* BIONIC_WORD_PATTERN.lastIndex when text.match(BIONIC_WORD_PATTERN) returns:
\* match sets it to 0 before the first search and the failing last search
\* sets it to 0 again.
LastIndexAfterMatch(text) == 0

extractReadingWords(md) ==
    MatchWords(TextContent(ParseHtml(renderMarkdown(md).html), 0))

(***************************************************************************)
(* renderBionicWord                                                        *)
(***************************************************************************)

\* "&amp;", as the serializer writes an ampersand of a text.
EscapedAmpersand == <<"&", "a", "m", "p", ";">>

RECURSIVE SanitizeWord(_, _)
\* DOMPurify.sanitize(word) of a string: the text is serialized with its
\* ampersands escaped, and an opening <script> is removed together with what
\* follows it, its content.
SanitizeWord(w, i) ==
    IF i > Len(w) THEN <<>>
    ELSE IF w[i] \in RawOpenTags THEN <<>>
    ELSE IF w[i] = "&" THEN EscapedAmpersand \o SanitizeWord(w, i + 1)
    ELSE <<w[i]>> \o SanitizeWord(w, i + 1)

\* The string "&nbsp;"
NbspPiece == [type |-> "nbsp", focus |-> <<>>, rest |-> <<"&nbsp;">>]

\* renderBionicWord with the fixation used as passed.
renderBionicWordMutant(w, c) ==
    LET safeWord == SanitizeWord(w, 1)
    IN  IF Len(safeWord) = 0 THEN NbspPiece
        ELSE IF 2 * Len(safeWord) < c.minWordLength THEN TextPiece(safeWord)
        ELSE LET focusLength == FocusLength(Len(safeWord), c.fixation)
             IN  WordPiece(Slice(safeWord, 0, focusLength), SliceFrom(safeWord, focusLength))

\* The html returned, as the piece it writes; c.minWordLength is in halves.
renderBionicWord(w, c) ==
    LET safeWord == SanitizeWord(w, 1)
    IN  IF Len(safeWord) = 0 THEN NbspPiece
        ELSE IF 2 * Len(safeWord) < c.minWordLength THEN TextPiece(safeWord)
        ELSE LET fixation    == ClampedFixation(c)
                 focusLength == FocusLength(Len(safeWord), fixation)
                 focus       == Slice(safeWord, 0, focusLength)
                 rest        == SliceFrom(safeWord, focusLength)
             IN  IF rest = <<>> THEN WordPiece(focus, <<>>) ELSE WordPiece(focus, rest)

(***************************************************************************)
(* The table formatter: parseCells, formatRow, buildSeparatorCell,         *)
(* formatMarkdownTables.  Every symbol of these texts is one character.    *)
(***************************************************************************)

RECURSIVE SplitOn(_, _, _, _, _)
\* String.prototype.split(sep) for a one-character separator.
SplitOn(s, sep, i, cur, acc) ==
    IF i > Len(s) THEN Append(acc, cur)
    ELSE IF s[i] = sep THEN SplitOn(s, sep, i + 1, <<>>, Append(acc, cur))
    ELSE SplitOn(s, sep, i + 1, Append(cur, s[i]), acc)

\* line.trim().replace(/^\|/u, "").replace(/\|$/u, "")
StripPipes(line) ==
    LET trimmed == Trim(line)
        head    == IF trimmed # <<>> /\ trimmed[1] = "|" THEN Tail(trimmed) ELSE trimmed
    IN  IF head # <<>> /\ head[Len(head)] = "|" THEN SubSeq(head, 1, Len(head) - 1) ELSE head

parseCells(line) ==
    LET cells == SplitOn(StripPipes(line), "|", 1, <<>>, <<>>)
    IN  [k \in 1 .. Len(cells) |-> Trim(cells[k])]

\* :?-{3,}:? on a whole cell
IsSeparatorCell(cell) ==
    LET from == IF cell # <<>> /\ cell[1] = ":" THEN 2 ELSE 1
        to   == IF Len(cell) >= from /\ cell[Len(cell)] = ":" THEN Len(cell) - 1 ELSE Len(cell)
    IN  /\ to - from + 1 >= 3
        /\ \A k \in from .. to : cell[k] = "-"

\* TABLE_SEPARATOR_PATTERN.test(line): optional blanks and one optional pipe
\* at either end, and between them two or more cells :?-{3,}:? with optional
\* blanks around each, separated by pipes.
TABLE_SEPARATOR_PATTERN(line) ==
    LET cells == SplitOn(StripPipes(line), "|", 1, <<>>, <<>>)
    IN  /\ Len(cells) >= 2
        /\ \A k \in 1 .. Len(cells) : IsSeparatorCell(Trim(cells[k]))

\* String.prototype.includes("|")
IncludesPipe(line) == \E k \in 1 .. Len(line) : line[k] = "|"

\* String.prototype.repeat and padEnd
Repeat(ch, n) == [k \in 1 .. n |-> ch]
PadEnd(cell, width) == cell \o Repeat(" ", width - Len(cell))

formatRow(cells, widths) ==
    <<"|", " ">> \o JoinWith([k \in 1 .. Len(cells) |-> PadEnd(cells[k], widths[k])],
                             <<" ", "|", " ">>) \o <<" ", "|">>

\* buildSeparatorCell with a trailing colon taken for a leading one.
buildSeparatorCellMutant(width, template) ==
    LET trimmed    == Trim(template)
        left       == trimmed # <<>> /\ trimmed[1] = ":"
        right      == trimmed # <<>> /\ trimmed[Len(trimmed)] = ":"
        bodyLength == Max(3, width)
    IN  IF left /\ right THEN <<":">> \o Repeat("-", Max(1, bodyLength - 2)) \o <<":">>
        ELSE IF left \/ right THEN <<":">> \o Repeat("-", Max(2, bodyLength - 1))
        ELSE Repeat("-", bodyLength)

buildSeparatorCell(width, template) ==
    LET trimmed    == Trim(template)
        left       == trimmed # <<>> /\ trimmed[1] = ":"
        right      == trimmed # <<>> /\ trimmed[Len(trimmed)] = ":"
        bodyLength == Max(3, width)
    IN  IF left /\ right THEN <<":">> \o Repeat("-", Max(1, bodyLength - 2)) \o <<":">>
        ELSE IF left THEN <<":">> \o Repeat("-", Max(2, bodyLength - 1))
        ELSE IF right THEN Repeat("-", Max(2, bodyLength - 1)) \o <<":">>
        ELSE Repeat("-", bodyLength)

\* Math.max over the values of a sequence and a floor.
MaxOf(floor, values) ==
    CHOOSE m \in {floor} \cup {values[k] : k \in 1 .. Len(values)} :
        /\ m >= floor
        /\ \A k \in 1 .. Len(values) : m >= values[k]

\* The column widths with the separator row counted.
ColumnWidthsMutant(normalizedRows, columnCount) ==
    [column \in 1 .. columnCount |->
        MaxOf(3, [rowIndex \in 1 .. Len(normalizedRows) |->
                     Len(normalizedRows[rowIndex][column])])]

\* widths: Math.max(3, ...cell lengths of the column, the separator row as 0)
ColumnWidths(normalizedRows, columnCount) ==
    [column \in 1 .. columnCount |->
        MaxOf(3, [rowIndex \in 1 .. Len(normalizedRows) |->
                     IF rowIndex = 2 THEN 0 ELSE Len(normalizedRows[rowIndex][column])])]

\* The while loop collecting the table body: the value of cursor (1-based).
RECURSIVE TableEnd(_, _)
TableEnd(lines, cursor) ==
    IF cursor <= Len(lines) /\ IncludesPipe(lines[cursor]) /\ Len(Trim(lines[cursor])) > 0
    THEN TableEnd(lines, cursor + 1)
    ELSE cursor

\* The lines written for the table tableLines.
FormatTable(tableLines) ==
    LET rows           == [k \in 1 .. Len(tableLines) |-> parseCells(tableLines[k])]
        columnCount    == MaxOf(Len(rows[1]), [k \in 1 .. Len(rows) |-> Len(rows[k])])
        normalizedRows == [k \in 1 .. Len(rows) |->
                              [column \in 1 .. columnCount |->
                                  IF column <= Len(rows[k]) THEN rows[k][column] ELSE <<>>]]
        widths         == ColumnWidths(normalizedRows, columnCount)
        separatorCells == normalizedRows[2]
    IN  [k \in 1 .. Len(rows) |->
            IF k = 2
            THEN <<"|", " ">> \o
                 JoinWith([column \in 1 .. columnCount |->
                              buildSeparatorCell(widths[column], separatorCells[column])],
                          <<" ", "|", " ">>) \o <<" ", "|">>
            ELSE formatRow(normalizedRows[k], widths)]

RECURSIVE FormatFrom(_, _, _)
\* The outer while loop (index is 1-based here).
FormatFrom(lines, index, output) ==
    IF index > Len(lines) THEN output
    ELSE LET header == lines[index]
         IN  IF \/ ~IncludesPipe(header)
                \/ index + 1 > Len(lines)
                \/ lines[index + 1] = <<>>
                \/ ~TABLE_SEPARATOR_PATTERN(lines[index + 1])
             THEN FormatFrom(lines, index + 1, Append(output, header))
             ELSE LET cursor == TableEnd(lines, index + 2)
                  IN  FormatFrom(lines, cursor,
                                 output \o FormatTable(SubSeq(lines, index, cursor - 1)))

formatMarkdownTables(md) == JoinLines(FormatFrom(SplitLines(md), 1, <<>>))

(***************************************************************************)
(* Specification SpecLines: getBlockIndexForLine on arbitrary text.        *)
(***************************************************************************)

\* Longest raw text, in characters.
MaxTextLen == 4

LineChars == {"a", " ", "\n", "\r"}

\* The cursor lines the editor reports, with lines outside the text.
LineNumbers == -1 .. MaxTextLen + 2

InitLines ==
    /\ lastIndex = 0
    /\ pc = "ready"
    /\ markdown \in SeqsUpTo(LineChars, MaxTextLen)
    /\ lineNumber = 0
    /\ activeBlockIndex = 0
    /\ rendered = None
    /\ cosmicWords = None
    /\ html = None
    /\ config = None
    /\ previewHtml = None
    /\ cosmicWord = None
    /\ cosmicWordHtml = None
    /\ extractedFootnotes = None
    /\ contentBefore = None
    /\ status = None
    /\ dirtyHtml = None
    /\ cleanHtml = None
    /\ calls = None
    /\ headings = None
    /\ checklistProgress = None
    /\ document = None
    /\ error = None
    /\ callArgument = None
    /\ runtime = None
    /\ classList = None
    /\ opened = None
    /\ printActions = None
    /\ applied = None
    /\ disk = None
    /\ saving = None
    /\ save = None
    /\ replace = None
    /\ replacedDocument = None
    /\ userActions = None
    /\ cosmicOpen = None
    /\ cosmicPlaying = None
    /\ cosmicIndex = None
    /\ interval = None

\* handleCursorLineChange
CursorLineChange ==
    /\ pc = "ready"
    /\ \E n \in LineNumbers :
          /\ lineNumber' = n
          /\ activeBlockIndex' = getBlockIndexForLine(markdown, n)
    /\ pc' = "cursor"
    /\ UNCHANGED <<markdown, rendered, cosmicWords, html, config, previewHtml,
                   cosmicWord, cosmicWordHtml, extractedFootnotes, contentBefore,
                   status, dirtyHtml, cleanHtml, lastIndex, calls, headings,
                   checklistProgress, document, error, callArgument, runtime, classList,
                   opened, printActions, applied, disk, saving, save, replace,
                   replacedDocument, userActions, cosmicOpen, cosmicPlaying,
                   cosmicIndex, interval>>

NextLines == CursorLineChange

SpecLines == InitLines /\ [][NextLines]_vars

\* The lines of the text and the runs of non-blank lines, counted directly.
LinesOf(md) == SplitLines(md)
IsBlankLine(l) == \A i \in 1 .. Len(l) : l[i] \in Whitespace
RunStarts(md, upTo) ==
    {i \in 1 .. Min(upTo, Len(LinesOf(md))) :
        /\ ~IsBlankLine(LinesOf(md)[i])
        /\ (i = 1 \/ IsBlankLine(LinesOf(md)[i - 1]))}

\* C3: getBlockIndexForLine is 0 for n <= 1 and otherwise max(0, k - 1), k the
\* number of maximal runs of non-blank lines that begin at or before line
\* min(n, number of lines); it is never negative.
C3_BlockIndexCountsRuns ==
    pc = "cursor" =>
        /\ activeBlockIndex >= 0
        /\ activeBlockIndex =
              IF lineNumber <= 1 THEN 0
              ELSE Max(0, Cardinality(RunStarts(markdown, lineNumber)) - 1)

\* A cursor below two runs of non-blank lines: the third run is block 2.
C3_Witness ==
    /\ pc = "cursor"
    /\ lineNumber > 1
    /\ Cardinality(RunStarts(markdown, lineNumber)) >= 2
    /\ activeBlockIndex >= 1

(***************************************************************************)
(* Specification SpecBionic: applyBionicReading on html documents.         *)
(***************************************************************************)

\* Longest text of the one-paragraph documents, in characters.
MaxWordText == 4
\* Most nodes of the nested documents.
MaxNodes == 3

\* A word character, a character that only continues a word, whitespace and
\* punctuation.
BionicChars == {"a", "-", " ", "."}

RECURSIVE Run(_, _)
Run(ch, n) == IF n = 0 THEN <<>> ELSE <<ch>> \o Run(ch, n - 1)

\* Words around the upper clamp of minWordLength.
LongWords == {Run("a", n) : n \in MaxMinWordLength - 1 .. MaxMinWordLength + 1}

\* <p>text</p>
Paragraph(text) ==
    IF text = <<>> THEN <<Elem("p", 0, "", {})>>
    ELSE <<Elem("p", 0, "", {}), TextNode(1, text)>>

TextInputs ==
    {[dom |-> Paragraph(t), canonical |-> TRUE] :
        t \in SeqsUpTo(BionicChars, MaxWordText) \cup LongWords}

TreeTags == {"em", "code", "a"}
TreeText == <<"a", "b", "c", " ", "a">>

\* The elements a node appended in document order may be a child of: <body>
\* and the elements on the path from the last node up.
OpenElements(t) ==
    {0} \cup {j \in 1 .. Len(t) : t[j].kind = "element" /\ IsAncestorOrSelf(t, j, Len(t))}

Extensions(t) ==
    {Append(t, Elem(tag, p, "", {})) : tag \in TreeTags, p \in OpenElements(t)}
    \cup {Append(t, TextNode(p, TreeText)) : p \in OpenElements(t)}

RECURSIVE TreesOfSize(_)
TreesOfSize(n) ==
    IF n = 0 THEN {<<>>} ELSE UNION {Extensions(t) : t \in TreesOfSize(n - 1)}

TreeInputs ==
    {[dom |-> t, canonical |-> k] :
        t \in UNION {TreesOfSize(n) : n \in 1 .. MaxNodes}, k \in BOOLEAN}

\* UltraReadConfig; fixation in hundredths, minWordLength in halves.
Configs ==
    [enabled : BOOLEAN, fixation : {10, 50, 90}, minWordLength : {-2, 5, 7, 8, 50},
     focusWeight : {760}]

TreeConfigs ==
    [enabled : BOOLEAN, fixation : {50}, minWordLength : {4}, focusWeight : {760}]

InitBionic ==
    /\ lastIndex = 0
    /\ pc = "ready"
    /\ markdown = <<>>
    /\ lineNumber = 0
    /\ activeBlockIndex = 0
    /\ rendered = None
    /\ cosmicWords = None
    /\ \/ html \in TextInputs /\ config \in Configs
       \/ html \in TreeInputs /\ config \in TreeConfigs
    /\ previewHtml = None
    /\ cosmicWord = None
    /\ cosmicWordHtml = None
    /\ extractedFootnotes = None
    /\ contentBefore = None
    /\ status = None
    /\ dirtyHtml = None
    /\ cleanHtml = None
    /\ calls = None
    /\ headings = None
    /\ checklistProgress = None
    /\ document = None
    /\ error = None
    /\ callArgument = None
    /\ runtime = None
    /\ classList = None
    /\ opened = None
    /\ printActions = None
    /\ applied = None
    /\ disk = None
    /\ saving = None
    /\ save = None
    /\ replace = None
    /\ replacedDocument = None
    /\ userActions = None
    /\ cosmicOpen = None
    /\ cosmicPlaying = None
    /\ cosmicIndex = None
    /\ interval = None

\* useMemo(() => applyBionicReading(rendered.html, ultraRead))
ApplyBionicReading ==
    /\ pc = "ready"
    /\ previewHtml' = applyBionicReading(html, config)
    /\ pc' = "bionic"
    /\ UNCHANGED <<markdown, lineNumber, activeBlockIndex, rendered, cosmicWords, html,
                   config, cosmicWord, cosmicWordHtml, extractedFootnotes,
                   contentBefore, status, dirtyHtml, cleanHtml, lastIndex, calls,
                   headings, checklistProgress, document, error, callArgument, runtime,
                   classList, opened, printActions, applied, disk, saving, save,
                   replace, replacedDocument, userActions, cosmicOpen, cosmicPlaying,
                   cosmicIndex, interval>>

NextBionic == ApplyBionicReading

SpecBionic == InitBionic /\ [][NextBionic]_vars

BionicClasses == {"bionic-word", "bionic-focus", "bionic-rest"}

\* Node i lies below an element with a tag of the exclusion set.
InsideSkipped(nodes, i) ==
    \E e \in 1 .. Len(nodes) :
        /\ nodes[e].tag \in BIONIC_SKIP_SELECTOR
        /\ IsAncestorOrSelf(nodes, e, nodes[i].parent)

ParentClass(nodes, i) == IF nodes[i].parent = 0 THEN "" ELSE nodes[nodes[i].parent].cls

Positions(nodes) == [i \in 1 .. Len(nodes) |-> i]

\* The texts of the text nodes below excluded elements, in document order.
SkippedTexts(nodes) ==
    LET at == SelectSeq(Positions(nodes),
                        LAMBDA i : nodes[i].kind = "text" /\ InsideSkipped(nodes, i))
    IN  [k \in 1 .. Len(at) |-> nodes[at[k]].text]

\* The wrappers of a document, and the parts of the word inside wrapper w.
Wrappers(nodes) == {w \in 1 .. Len(nodes) : nodes[w].cls = "bionic-word"}
FocusOf(nodes, w) ==
    TextContent(nodes, CHOOSE f \in 1 .. Len(nodes) :
                           nodes[f].parent = w /\ nodes[f].cls = "bionic-focus")
RestSpans(nodes, w) ==
    {r \in 1 .. Len(nodes) : nodes[r].parent = w /\ nodes[r].cls = "bionic-rest"}
WordOf(nodes, w) == TextContent(nodes, w)

\* C6: with the transform enabled, no bionic wrapper lies below a pre, code,
\* kbd, samp, a, button, input or textarea element at any depth, and the text
\* nodes below those elements are the ones of the input.
C6_NothingInsideSkipped ==
    (pc = "bionic" /\ config.enabled) =>
        /\ \A i \in 1 .. Len(previewHtml.dom) :
              previewHtml.dom[i].cls \in BionicClasses => ~InsideSkipped(previewHtml.dom, i)
        /\ SkippedTexts(previewHtml.dom) = SkippedTexts(html.dom)

\* A text with a wrappable word whose parent is not excluded but whose
\* grandparent is.
C6_Witness ==
    /\ pc = "bionic"
    /\ config.enabled
    /\ \E i \in 1 .. Len(html.dom) :
          /\ html.dom[i].kind = "text"
          /\ html.dom[i].parent # 0
          /\ html.dom[html.dom[i].parent].tag \notin BIONIC_SKIP_SELECTOR
          /\ InsideSkipped(html.dom, i)
          /\ \E m \in 1 .. Len(MatchAll(html.dom[i].text)) :
                Len(MatchAll(html.dom[i].text)[m].word) >= ClampedMinWordLength(config)

\* F and M as the claim states them.
ClaimF(c) == IF c.fixation < 20 THEN 20 ELSE IF c.fixation > 80 THEN 80 ELSE c.fixation
ClaimRoundedMin(c) == CHOOSE r \in -100 .. 100 : 2 * r - 1 <= c.minWordLength /\ c.minWordLength < 2 * r + 1
ClaimM(c) == IF ClaimRoundedMin(c) < 2 THEN 2 ELSE IF ClaimRoundedMin(c) > 12 THEN 12 ELSE ClaimRoundedMin(c)
ClaimRound(len, f) == CHOOSE r \in 0 .. len : 100 * r - 50 <= len * f /\ len * f < 100 * r + 50
ClaimL(len, f) == IF ClaimRound(len, f) < 1 THEN 1 ELSE ClaimRound(len, f)

\* C7: a matched word is wrapped iff its length is at least M; the focus part
\* of a wrapped word is its first L = clamp(round(length * F), 1, length)
\* characters, and a rest part exists iff L < length.
C7_SplitRule ==
    (pc = "bionic" /\ config.enabled) =>
        LET out == previewHtml.dom
        IN  /\ \A w \in Wrappers(out) :
                  LET len == Len(WordOf(out, w))
                      L   == Len(FocusOf(out, w))
                  IN  /\ len >= ClaimM(config)
                      /\ L = ClaimL(len, ClaimF(config))
                      /\ 1 <= L /\ L <= len
                      /\ FocusOf(out, w) = SubSeq(WordOf(out, w), 1, L)
                      /\ (RestSpans(out, w) # {}) <=> (L < len)
                      /\ MatchAll(WordOf(out, w)) = <<[index |-> 0, word |-> WordOf(out, w)]>>
            /\ \A i \in 1 .. Len(out) :
                  (/\ out[i].kind = "text"
                   /\ ~InsideSkipped(out, i)
                   /\ ParentClass(out, i) \notin BionicClasses)
                  => \A m \in 1 .. Len(MatchAll(out[i].text)) :
                        Len(MatchAll(out[i].text)[m].word) < ClaimM(config)
            /\ \A v, w \in Wrappers(out) :
                  Len(WordOf(out, v)) = Len(WordOf(out, w))
                  => Len(FocusOf(out, v)) = Len(FocusOf(out, w))

\* Out-of-range settings and a word of exactly 12 characters, wrapped and split.
C7_Witness ==
    /\ pc = "bionic"
    /\ config.enabled
    /\ config.fixation > MaxFixation
    /\ config.minWordLength > 2 * MaxMinWordLength
    /\ \E w \in Wrappers(previewHtml.dom) :
          /\ Len(WordOf(previewHtml.dom, w)) = MaxMinWordLength
          /\ RestSpans(previewHtml.dom, w) # {}

\* The elements of the input, which the transform keeps.
OriginalElements(nodes) ==
    SelectSeq(Positions(nodes),
              LAMBDA i : nodes[i].kind = "element" /\ nodes[i].cls \notin BionicClasses)

\* C8: the pieces emitted for a text node spell the original text: the text of
\* the document and of each of its elements is unchanged by the transform.
C8_TextPreserved ==
    (pc = "bionic" /\ config.enabled) =>
        LET out == previewHtml.dom
            in  == html.dom
        IN  /\ TextContent(out, 0) = TextContent(in, 0)
            /\ Len(OriginalElements(out)) = Len(OriginalElements(in))
            /\ \A k \in 1 .. Len(OriginalElements(in)) :
                  /\ out[OriginalElements(out)[k]].tag = in[OriginalElements(in)[k]].tag
                  /\ TextContent(out, OriginalElements(out)[k])
                        = TextContent(in, OriginalElements(in)[k])

\* A wrapped and split word followed by a non-word run and another word.
C8_Witness ==
    /\ pc = "bionic"
    /\ config.enabled
    /\ \E w \in Wrappers(previewHtml.dom) :
          /\ RestSpans(previewHtml.dom, w) # {}
          /\ \E i \in w + 1 .. Len(previewHtml.dom) :
                /\ previewHtml.dom[i].kind = "text"
                /\ previewHtml.dom[i].parent = previewHtml.dom[w].parent
                /\ Trim(previewHtml.dom[i].text) = <<>>
    /\ Len(MatchAll(TextContent(html.dom, 0))) >= 2

\* C9: with config.enabled false the result is the html argument itself.
C9_DisabledReturnsInput ==
    (pc = "bionic" /\ ~config.enabled) => previewHtml = html

\* A disabled call on a string that parsing and serialising would rewrite and
\* whose words the transform would wrap.
C9_Witness ==
    /\ pc = "bionic"
    /\ ~config.enabled
    /\ ~html.canonical
    /\ Wrappers(BionicTransform(html, config).dom) # {}

(***************************************************************************)
(* Specification SpecRender: the editor renders a document, then the       *)
(* cursor moves.                                                           *)
(***************************************************************************)

\* Most lines of a document.
MaxLines == 3

\* The lines documents are written from: blank, heading, text, quote, bullet,
\* text with a footnote reference, footnote definition with inline html, html
\* block, inline code with a link, inline html.
RenderLines ==
    {<<>>,
     <<"#", " ", "a">>,
     <<"a", "b">>,
     <<">", " ", "a">>,
     <<"-", " ", "a">>,
     <<"a", "[", "^", "a", "]">>,
     <<"[", "^", "a", "]", ":", " ", "<b onclick>", "b", "</b>">>,
     <<"<script>", "a", "</script>">>,
     <<Backtick, "a", Backtick, " ", "<a href=javascript:>", "b", "</a>">>,
     <<"a", "<style>", "b", "</style>", "<iframe>", "b", "</iframe>">>}

\* No quote or html block directly continues the lines of a list item.
Unambiguous(lines) ==
    \A i \in 1 .. Len(lines) :
        (IsQuote(lines[i]) \/ IsHtmlBlock(lines[i])) =>
            ~\E j \in 1 .. i - 1 :
                /\ IsBullet(lines[j])
                /\ \A k \in j + 1 .. i - 1 : ~IsBlank(lines[k]) /\ ~IsHeading(lines[k])

Docs == {JoinLines(ls) : ls \in {l \in SeqsUpTo(RenderLines, MaxLines) : Unambiguous(l)}}

\* The reading mode of the session.
UltraRead == [enabled |-> TRUE, fixation |-> 50, minWordLength |-> 4, focusWeight |-> 760]

InitRender ==
    /\ lastIndex = 0
    /\ pc = "edited"
    /\ markdown \in Docs
    /\ lineNumber = 0
    /\ activeBlockIndex = 0
    /\ rendered = None
    /\ cosmicWords = None
    /\ html = None
    /\ config = UltraRead
    /\ previewHtml = None
    /\ cosmicWord = None
    /\ cosmicWordHtml = None
    /\ extractedFootnotes = None
    /\ contentBefore = None
    /\ status = None
    /\ dirtyHtml = None
    /\ cleanHtml = None
    /\ calls = None
    /\ headings = None
    /\ checklistProgress = None
    /\ document = None
    /\ error = None
    /\ callArgument = None
    /\ runtime = None
    /\ classList = None
    /\ opened = None
    /\ printActions = None
    /\ applied = None
    /\ disk = None
    /\ saving = None
    /\ save = None
    /\ replace = None
    /\ replacedDocument = None
    /\ userActions = None
    /\ cosmicOpen = None
    /\ cosmicPlaying = None
    /\ cosmicIndex = None
    /\ interval = None

\* The memos of a render of App: rendered, previewHtml and cosmicWords.
RenderApp ==
    /\ pc = "edited"
    /\ rendered' = renderMarkdown(markdown)
    /\ html' = rendered'.html
    /\ previewHtml' = applyBionicReading(rendered'.html, config)
    /\ cosmicWords' = extractReadingWords(markdown)
    /\ lastIndex' = LastIndexAfterMatch(TextContent(ParseHtml(rendered'.html), 0))
    /\ pc' = "ready"
    /\ UNCHANGED <<markdown, lineNumber, activeBlockIndex, config, cosmicWord,
                   cosmicWordHtml, extractedFootnotes, contentBefore, status, dirtyHtml,
                   cleanHtml, calls, headings, checklistProgress, document, error,
                   callArgument, runtime, classList, opened, printActions, applied,
                   disk, saving, save, replace, replacedDocument, userActions,
                   cosmicOpen, cosmicPlaying, cosmicIndex, interval>>

NextRender == RenderApp \/ CursorLineChange

SpecRender == InitRender /\ [][NextRender]_vars

Contains(s, sym) == \E i \in 1 .. Len(s) : s[i] = sym

EventHandlerAttrs == {"onclick"}

\* C1: the html returned by renderMarkdown holds no script, style or iframe
\* element, no event-handler attribute and no javascript: URI at any depth,
\* the markup of footnote references and footnote bodies included.
C1_SanitizedOutput ==
    (pc \in {"ready", "cursor"} /\ markdown \in Docs) =>
        \A i \in 1 .. Len(rendered.html.dom) :
            /\ rendered.html.dom[i].tag \notin {"script", "style", "iframe"}
            /\ \A a \in rendered.html.dom[i].attrs :
                  /\ a[1] \notin EventHandlerAttrs
                  /\ ~Contains(a[2], "javascript:")

\* A referenced footnote whose body carries an event handler is rendered
\* next to a script block: the <b> of the body is in the footnote list.
C1_Witness ==
    /\ pc = "ready"
    /\ markdown \in Docs
    /\ Contains(markdown, "<b onclick>")
    /\ Contains(markdown, "<script>")
    /\ \E i \in 1 .. Len(rendered.html.dom) :
          /\ rendered.html.dom[i].tag = "b"
          /\ rendered.html.dom[i].parent # 0
          /\ rendered.html.dom[rendered.html.dom[i].parent].tag = "li"

\* The tagged elements of a document, in document order.
Tagged(nodes) == SelectSeq(Positions(nodes), LAMBDA i : nodes[i].blockIndex >= 0)

\* The tagged elements produced from source line n.
BlocksOfLine(nodes, n) ==
    {i \in 1 .. Len(nodes) :
        nodes[i].blockIndex >= 0 /\ nodes[i].line <= n /\ n <= nodes[i].endLine}

\* C2: for a cursor line inside a block, getBlockIndexForLine equals the
\* data-block-index of the block element rendered from that line.  Stated for
\* the documents none of whose lines the footnote pre-processor rewrites, and
\* satisfied when any tagged element produced from the line carries the index.
C2_IndexAgrees ==
    (/\ pc = "cursor"
     /\ markdown \in Docs
     /\ extractFootnotes(markdown).bodyMarkdown = markdown
     /\ BlocksOfLine(rendered.html.dom, lineNumber) # {})
    => \E i \in BlocksOfLine(rendered.html.dom, lineNumber) :
          rendered.html.dom[i].blockIndex = activeBlockIndex

TopLevelBlocks(nodes) ==
    {j \in 1 .. Len(nodes) :
        /\ nodes[j].kind = "element"
        /\ nodes[j].tag \in BLOCK_SELECTOR
        /\ ~\E i \in 1 .. Len(nodes) :
              /\ i # j
              /\ nodes[i].kind = "element"
              /\ nodes[i].tag \in BLOCK_SELECTOR
              /\ IsAncestorOrSelf(nodes, i, j)}

\* C5: only top-level block matches are tagged: an element of the block
\* selector set nested inside another tagged block receives no
\* data-block-index and is not counted in blockCount.
C5_OnlyTopLevelTagged ==
    (pc = "ready" /\ markdown \in Docs) =>
        /\ \A j \in 1 .. Len(rendered.html.dom) :
              rendered.html.dom[j].blockIndex >= 0 =>
                  j \in TopLevelBlocks(rendered.html.dom)
        /\ rendered.blockCount = Cardinality(TopLevelBlocks(rendered.html.dom))

\* The words the transformer matches: those of the text nodes it visits, in
\* document order.
TransformerWords(nodes) ==
    LET visited == SelectSeq(Positions(nodes),
                             LAMBDA i : nodes[i].kind = "text" /\ ~shouldSkipBionicNode(nodes, i))
    IN  Concat([k \in 1 .. Len(visited) |->
                   [m \in 1 .. Len(MatchAll(nodes[visited[k]].text)) |->
                       MatchAll(nodes[visited[k]].text)[m].word]])

\* C10: the words extractReadingWords returns are the words
\* applyBionicReading matches in the same rendered document, in the same
\* order.
C10_SameWords ==
    (pc = "ready" /\ markdown \in Docs) =>
        cosmicWords = TransformerWords(ParseHtml(rendered.html))

(***************************************************************************)
(* Specification SpecWord: renderBionicWord on single words.               *)
(***************************************************************************)

\* A word character, a hyphen, an ampersand and an opening raw tag.
WordChars == {"a", "-", "&", "<script>"}

WordInputs == SeqsUpTo(WordChars, MaxWordText) \cup LongWords

\* Pick<UltraReadConfig, "fixation" | "minWordLength">
WordConfigs == [fixation : {10, 50, 90}, minWordLength : {-2, 2, 5, 6, 7, 8, 24, 50}]

InitWord ==
    /\ lastIndex = 0
    /\ pc = "ready"
    /\ markdown = <<>>
    /\ lineNumber = 0
    /\ activeBlockIndex = 0
    /\ rendered = None
    /\ cosmicWords = None
    /\ html = None
    /\ config \in WordConfigs
    /\ previewHtml = None
    /\ cosmicWord \in WordInputs
    /\ cosmicWordHtml = None
    /\ extractedFootnotes = None
    /\ contentBefore = None
    /\ status = None
    /\ dirtyHtml = None
    /\ cleanHtml = None
    /\ calls = None
    /\ headings = None
    /\ checklistProgress = None
    /\ document = None
    /\ error = None
    /\ callArgument = None
    /\ runtime = None
    /\ classList = None
    /\ opened = None
    /\ printActions = None
    /\ applied = None
    /\ disk = None
    /\ saving = None
    /\ save = None
    /\ replace = None
    /\ replacedDocument = None
    /\ userActions = None
    /\ cosmicOpen = None
    /\ cosmicPlaying = None
    /\ cosmicIndex = None
    /\ interval = None

\* renderBionicWord(word, { fixation, minWordLength })
RenderBionicWord ==
    /\ pc = "ready"
    /\ cosmicWordHtml' = renderBionicWord(cosmicWord, config)
    /\ pc' = "word"
    /\ UNCHANGED <<markdown, lineNumber, activeBlockIndex, rendered, cosmicWords, html,
                   config, previewHtml, cosmicWord, extractedFootnotes, contentBefore,
                   status, dirtyHtml, cleanHtml, lastIndex, calls, headings,
                   checklistProgress, document, error, callArgument, runtime, classList,
                   opened, printActions, applied, disk, saving, save, replace,
                   replacedDocument, userActions, cosmicOpen, cosmicPlaying,
                   cosmicIndex, interval>>

NextWord == RenderBionicWord

SpecWord == InitWord /\ [][NextWord]_vars

\* The escaped word, read off the word: the symbols before the first raw tag,
\* each ampersand written as five characters.
RawTagsIn(w) == {i \in 1 .. Len(w) : w[i] \in RawOpenTags}
KeptPrefix(w) == IF RawTagsIn(w) = {} THEN w ELSE SubSeq(w, 1, (CHOOSE i \in RawTagsIn(w) : \A j \in RawTagsIn(w) : i <= j) - 1)
ClaimEscaped(w) ==
    Concat([i \in 1 .. Len(KeptPrefix(w)) |->
               IF KeptPrefix(w)[i] = "&" THEN <<"&", "a", "m", "p", ";">>
               ELSE <<KeptPrefix(w)[i]>>])

\* The word is one match of the word pattern, as the transformer meets it.
IsOneWord(w) == MatchAll(w) = <<[index |-> 0, word |-> w]>>

\* C11 as stated: '&nbsp;' for an empty word, and otherwise the word is
\* wrapped and split exactly as applyBionicReading treats that word under the
\* same fixation and minWordLength.
C11_SameAsTransformer ==
    pc = "word" =>
        /\ ClaimEscaped(cosmicWord) = <<>> => cosmicWordHtml = NbspPiece
        /\ IsOneWord(cosmicWord) =>
              cosmicWordHtml = WordPieceOf(cosmicWord, ClampedFixation(config),
                                           ClampedMinWordLength(config))

\* C11 amended: '&nbsp;' for an empty word; the escaped word unwrapped when
\* it is shorter than minWordLength as passed, neither rounded nor clamped;
\* otherwise wrapped with a focus of clamp(round(length * F), 1, length)
\* characters, F the fixation clamped to [0.2, 0.8].  The result is the
\* transformer's whenever minWordLength is an integer from 2 to 12.
C11_WordRule ==
    pc = "word" =>
        LET safe == ClaimEscaped(cosmicWord)
            L    == ClaimL(Len(safe), ClaimF(config))
        IN  /\ safe = <<>> => cosmicWordHtml = NbspPiece
            /\ (safe # <<>> /\ 2 * Len(safe) < config.minWordLength) =>
                  cosmicWordHtml = TextPiece(safe)
            /\ (safe # <<>> /\ 2 * Len(safe) >= config.minWordLength) =>
                  /\ cosmicWordHtml.type = "word"
                  /\ cosmicWordHtml.focus = SubSeq(safe, 1, L)
                  /\ cosmicWordHtml.rest = SubSeq(safe, L + 1, Len(safe))
            /\ (/\ IsOneWord(cosmicWord)
                /\ config.minWordLength % 2 = 0
                /\ config.minWordLength >= 2 * MinMinWordLength
                /\ config.minWordLength <= 2 * MaxMinWordLength) =>
                  cosmicWordHtml = WordPieceOf(cosmicWord, ClampedFixation(config),
                                               ClampedMinWordLength(config))

\* A one-letter word under a threshold below 2 is wrapped, which the
\* transformer never does; the fixation is out of range as well.
C11_Witness ==
    /\ pc = "word"
    /\ config.minWordLength < 2 * MinMinWordLength
    /\ config.fixation > MaxFixation
    /\ Len(cosmicWord) = 1
    /\ IsOneWord(cosmicWord)
    /\ cosmicWordHtml.type = "word"

(***************************************************************************)
(* Specification SpecFootnotes: extractFootnotes on definitions and the    *)
(* lines that follow them.                                                 *)
(***************************************************************************)

\* Two definitions, and lines that begin with two spaces, a tab, one space
\* or a letter, with and without a tab inside; blank lines.
FootnoteLines ==
    {<<"[", "^", "a", "]", ":", " ", "x">>,
     <<"[", "^", "b", "]", ":", "y">>,
     <<" ", " ", "b">>,
     <<"\t", "b">>,
     <<" ", "b">>,
     <<"b">>,
     <<"a", "\t", "b">>,
     <<" ", " ">>,
     <<>>}

InitFootnotes ==
    /\ lastIndex = 0
    /\ pc = "ready"
    /\ markdown \in {JoinLines(ls) : ls \in SeqsUpTo(FootnoteLines, MaxLines)}
    /\ lineNumber = 0
    /\ activeBlockIndex = 0
    /\ rendered = None
    /\ cosmicWords = None
    /\ html = None
    /\ config = None
    /\ previewHtml = None
    /\ cosmicWord = None
    /\ cosmicWordHtml = None
    /\ extractedFootnotes = None
    /\ contentBefore = None
    /\ status = None
    /\ dirtyHtml = None
    /\ cleanHtml = None
    /\ calls = None
    /\ headings = None
    /\ checklistProgress = None
    /\ document = None
    /\ error = None
    /\ callArgument = None
    /\ runtime = None
    /\ classList = None
    /\ opened = None
    /\ printActions = None
    /\ applied = None
    /\ disk = None
    /\ saving = None
    /\ save = None
    /\ replace = None
    /\ replacedDocument = None
    /\ userActions = None
    /\ cosmicOpen = None
    /\ cosmicPlaying = None
    /\ cosmicIndex = None
    /\ interval = None

\* const extracted = extractFootnotes(markdown)
ExtractFootnotes ==
    /\ pc = "ready"
    /\ extractedFootnotes' = extractFootnotes(markdown)
    /\ pc' = "extracted"
    /\ UNCHANGED <<markdown, lineNumber, activeBlockIndex, rendered, cosmicWords, html,
                   config, previewHtml, cosmicWord, cosmicWordHtml, contentBefore,
                   status, dirtyHtml, cleanHtml, lastIndex, calls, headings,
                   checklistProgress, document, error, callArgument, runtime, classList,
                   opened, printActions, applied, disk, saving, save, replace,
                   replacedDocument, userActions, cosmicOpen, cosmicPlaying,
                   cosmicIndex, interval>>

NextFootnotes == ExtractFootnotes

SpecFootnotes == InitFootnotes /\ [][NextFootnotes]_vars

\* A line indented by at least two spaces or by a tab.
ClaimIndented(line) ==
    \/ Len(line) >= 2 /\ line[1] = " " /\ line[2] = " "
    \/ Len(line) >= 1 /\ line[1] = "\t"

\* The definition lines of a text, and the last line of the run of indented
\* lines that follows line i.
DefinitionLines(lines) == {i \in 1 .. Len(lines) : MatchDefinition(lines[i]).matched}
ClaimRunEnd(lines, i) ==
    CHOOSE j \in i .. Len(lines) :
        /\ \A k \in i + 1 .. j : ClaimIndented(lines[k])
        /\ j < Len(lines) => ~ClaimIndented(lines[j + 1])
ClaimBodyLines(lines) ==
    SelectSeq([k \in 1 .. Len(lines) |-> k],
              LAMBDA k : ~\E i \in DefinitionLines(lines) : i <= k /\ k <= ClaimRunEnd(lines, i))
ClaimDefinitionText(lines, i) ==
    Trim(JoinWith(<<MatchDefinition(lines[i]).rest>> \o
                  [k \in 1 .. ClaimRunEnd(lines, i) - i |-> Trim(lines[i + k])], <<" ">>))

\* C12: the continuation lines of a definition are exactly the lines right
\* after it that are indented by at least two spaces or a tab; the first line
\* that is not indented ends the run and stays in the body; the definition
\* text is the remainder of the first line and the continuation lines, joined
\* with single spaces.
C12_ContinuationLines ==
    pc = "extracted" =>
        LET lines == SplitLines(markdown)
        IN  /\ extractedFootnotes.bodyMarkdown =
                  JoinLines([k \in 1 .. Len(ClaimBodyLines(lines)) |->
                                lines[ClaimBodyLines(lines)[k]]])
            /\ \A i \in DefinitionLines(lines) :
                  (\A j \in DefinitionLines(lines) :
                      j > i => MatchDefinition(lines[j]).id # MatchDefinition(lines[i]).id)
                  => /\ MatchDefinition(lines[i]).id \in DOMAIN extractedFootnotes.definitions
                     /\ extractedFootnotes.definitions[MatchDefinition(lines[i]).id] =
                           ClaimDefinitionText(lines, i)

(***************************************************************************)
(* Specification SpecNotes: documents of footnote references and           *)
(* definitions are rendered.                                               *)
(***************************************************************************)

\* Text with one reference, with two, with a reference in capitals, a
\* definition, a definition without text, a reference inside a script block,
\* text.
NoteLines ==
    {<<"x", "[", "^", "a", "]">>,
     <<"x", "[", "^", "b", "]", "[", "^", "a", "]">>,
     <<"x", "[", "^", "A", "]">>,
     <<"[", "^", "a", "]", ":", " ", "y">>,
     <<"[", "^", "b", "]", ":">>,
     <<"<script>", "[", "^", "c", "]", "</script>">>,
     <<"x">>}

NoteDocs == {JoinLines(ls) : ls \in SeqsUpTo(NoteLines, MaxLines)}

InitNotes ==
    /\ lastIndex = 0
    /\ pc = "edited"
    /\ markdown \in NoteDocs
    /\ lineNumber = 0
    /\ activeBlockIndex = 0
    /\ rendered = None
    /\ cosmicWords = None
    /\ html = None
    /\ config = UltraRead
    /\ previewHtml = None
    /\ cosmicWord = None
    /\ cosmicWordHtml = None
    /\ extractedFootnotes = None
    /\ contentBefore = None
    /\ status = None
    /\ dirtyHtml = None
    /\ cleanHtml = None
    /\ calls = None
    /\ headings = None
    /\ checklistProgress = None
    /\ document = None
    /\ error = None
    /\ callArgument = None
    /\ runtime = None
    /\ classList = None
    /\ opened = None
    /\ printActions = None
    /\ applied = None
    /\ disk = None
    /\ saving = None
    /\ save = None
    /\ replace = None
    /\ replacedDocument = None
    /\ userActions = None
    /\ cosmicOpen = None
    /\ cosmicPlaying = None
    /\ cosmicIndex = None
    /\ interval = None

NextNotes == RenderApp

SpecNotes == InitNotes /\ [][NextNotes]_vars

\* The references of a text in reading order, read off the text: the
\* positions of "[^" outside definition lines, with the id in lower case and
\* whether the reference stands in markup the sanitizer removes.
LineStart(md, i) == i = 1 \/ md[i - 1] = "\n"
LineOf(md, i) == CHOOSE j \in 1 .. i : LineStart(md, j) /\ \A k \in j .. i : md[k] # "\n"
OnDefinitionLine(md, i) ==
    /\ md[LineOf(md, i)] = "["
    /\ \E k \in LineOf(md, i) .. Len(md) - 1 :
          /\ md[k] = "]" /\ md[k + 1] = ":"
          /\ \A j \in LineOf(md, i) .. k - 1 : md[j] \notin {"]", "\n"}
ClaimReferences(md) ==
    LET at == SelectSeq([i \in 1 .. Len(md) |-> i],
                        LAMBDA i : /\ i + 3 <= Len(md)
                                   /\ md[i] = "[" /\ md[i + 1] = "^" /\ md[i + 3] = "]"
                                   /\ ~OnDefinitionLine(md, i))
    IN  [r \in 1 .. Len(at) |->
            [id      |-> <<LowerChar(md[at[r] + 2])>>,
             visible |-> md[LineOf(md, at[r])] # "<script>"]]

\* The distinct ids referenced before reference r, and the number the claim
\* gives reference r.
FirstAt(refs, r) == CHOOSE q \in 1 .. r : refs[q].id = refs[r].id /\ \A p \in 1 .. q - 1 : refs[p].id # refs[r].id
ClaimNumber(refs, r) == 1 + Cardinality({refs[p].id : p \in 1 .. FirstAt(refs, r) - 1})
ClaimOrder(refs) ==
    LET firsts == SelectSeq([r \in 1 .. Len(refs) |-> r], LAMBDA r : FirstAt(refs, r) = r)
    IN  [k \in 1 .. Len(firsts) |-> refs[firsts[k]].id]

\* What the rendered html shows: the reference marks (id and text) and the
\* ids of the items of the footnote list, in document order.
AttrOf(node, name) == (CHOOSE a \in node.attrs : a[1] = name)[2]
ShownReferences(nodes) ==
    LET at == SelectSeq(Positions(nodes), LAMBDA i : nodes[i].cls = "footnote-ref")
    IN  [k \in 1 .. Len(at) |->
            [id   |-> SubSeq(AttrOf(nodes[at[k]], "id"), 2, Len(AttrOf(nodes[at[k]], "id"))),
             text |-> TextContent(nodes, at[k])]]
FootnoteSections(nodes) == {i \in 1 .. Len(nodes) : nodes[i].cls = "footnotes"}
ListItems(nodes) ==
    SelectSeq(Positions(nodes),
              LAMBDA i : /\ nodes[i].tag = "li"
                         /\ \E sec \in FootnoteSections(nodes) : IsAncestorOrSelf(nodes, sec, i))
ShownItems(nodes) ==
    [k \in 1 .. Len(ListItems(nodes)) |->
        SubSeq(AttrOf(nodes[ListItems(nodes)[k]], "id"), 2,
               Len(AttrOf(nodes[ListItems(nodes)[k]], "id")))]

\* C13: a reference shows 1 plus the number of distinct normalized ids first
\* referenced before it, a repeated reference shows the number of the first
\* one, the numbers of k distinct ids are 1..k, and the footnote list has its
\* k items in the order of first reference.
C13_NumberingByFirstReference ==
    pc = "ready" =>
        LET refs  == ClaimReferences(markdown)
            seen  == SelectSeq([r \in 1 .. Len(refs) |-> r], LAMBDA r : refs[r].visible)
            shown == ShownReferences(rendered.html.dom)
        IN  /\ Len(shown) = Len(seen)
            /\ \A k \in 1 .. Len(shown) :
                  /\ shown[k].id = refs[seen[k]].id
                  /\ shown[k].text = <<"[">> \o NumberText(ClaimNumber(refs, seen[k])) \o <<"]">>
            /\ {ClaimNumber(refs, r) : r \in 1 .. Len(refs)} = 1 .. Len(ClaimOrder(refs))
            /\ ShownItems(rendered.html.dom) = ClaimOrder(refs)

\* Two ids, the first referenced again after the second, in capitals.
C13_Witness ==
    /\ pc = "ready"
    /\ LET shown == ShownReferences(rendered.html.dom)
       IN  /\ Len(shown) >= 3
           /\ shown[1].text = <<"[", "1", "]">>
           /\ shown[2].text = <<"[", "2", "]">>
           /\ shown[3].text = <<"[", "1", "]">>
    /\ Contains(markdown, "A")

\* The definitions of a text, read off the text: the lines "[^X]:" with
\* the id in lower case and the text after the colon.
ClaimDefinitionLines(md, id) ==
    {i \in 1 .. Len(SplitLines(md)) :
        LET l == SplitLines(md)[i]
        IN  /\ Len(l) >= 5
            /\ l[1] = "[" /\ l[2] = "^" /\ l[4] = "]" /\ l[5] = ":"
            /\ <<LowerChar(l[3])>> = id}
ClaimDefinitionOf(md, id) ==
    LET last == CHOOSE i \in ClaimDefinitionLines(md, id) :
                    \A j \in ClaimDefinitionLines(md, id) : j <= i
    IN  Trim(SubSeq(SplitLines(md)[last], 6, Len(SplitLines(md)[last])))

\* The text of footnote item k without its back reference.
ItemBody(nodes, k) ==
    LET li   == ListItems(nodes)[k]
        back == CHOOSE b \in 1 .. Len(nodes) :
                    nodes[b].parent = li /\ nodes[b].cls = "footnote-backref"
    IN  Concat([j \in 1 .. back - li - 1 |->
                   IF nodes[li + j].kind = "text" THEN nodes[li + j].text ELSE <<>>])

\* C14 as stated: one footnotes section iff a reference was resolved, one
\* item per distinct referenced id; the body of an item is the definition
\* text when the id has a definition and 'Missing footnote: id' otherwise.
C14_SectionAndBodies ==
    pc = "ready" =>
        LET refs  == ClaimReferences(markdown)
            nodes == rendered.html.dom
        IN  /\ Cardinality(FootnoteSections(nodes)) = IF Len(refs) > 0 THEN 1 ELSE 0
            /\ ShownItems(nodes) = ClaimOrder(refs)
            /\ \A k \in 1 .. Len(ListItems(nodes)) :
                  ItemBody(nodes, k) =
                      (IF ClaimDefinitionLines(markdown, ShownItems(nodes)[k]) # {}
                       THEN ClaimDefinitionOf(markdown, ShownItems(nodes)[k])
                       ELSE MissingFootnote \o ShownItems(nodes)[k]) \o <<" ">>

\* C14 amended: as stated, but the body is the definition text only when the
\* id has a definition with a text, and 'Missing footnote: id' when the id
\* has no definition or one without text.
C14_SectionAndNonEmptyBodies ==
    pc = "ready" =>
        LET refs  == ClaimReferences(markdown)
            nodes == rendered.html.dom
        IN  /\ Cardinality(FootnoteSections(nodes)) = IF Len(refs) > 0 THEN 1 ELSE 0
            /\ \A sec \in FootnoteSections(nodes) :
                  /\ nodes[sec].parent = 0
                  /\ \A i \in sec + 1 .. Len(nodes) : IsAncestorOrSelf(nodes, sec, i)
            /\ ShownItems(nodes) = ClaimOrder(refs)
            /\ \A k \in 1 .. Len(ListItems(nodes)) :
                  ItemBody(nodes, k) =
                      (IF /\ ClaimDefinitionLines(markdown, ShownItems(nodes)[k]) # {}
                          /\ ClaimDefinitionOf(markdown, ShownItems(nodes)[k]) # <<>>
                       THEN ClaimDefinitionOf(markdown, ShownItems(nodes)[k])
                       ELSE MissingFootnote \o ShownItems(nodes)[k]) \o <<" ">>

\* A list with a defined footnote and one that is not defined.
C14_Witness ==
    /\ pc = "ready"
    /\ Len(ListItems(rendered.html.dom)) >= 2
    /\ \E k \in 1 .. Len(ListItems(rendered.html.dom)) :
          ItemBody(rendered.html.dom, k) = <<"y", " ">>
    /\ \E k \in 1 .. Len(ListItems(rendered.html.dom)) :
          /\ ClaimDefinitionLines(markdown, ShownItems(rendered.html.dom)[k]) = {}
          /\ ItemBody(rendered.html.dom, k) =
                MissingFootnote \o ShownItems(rendered.html.dom)[k] \o <<" ">>

(***************************************************************************)
(* Specification SpecTables: the Format tables command, run twice.         *)
(***************************************************************************)

\* A header with a long cell, separators (centred, plain, right and left), a
\* row of three cells between pipes, a row of one cell, text, a blank line.
TableLines ==
    {<<"a", "a", "a", "a", "|", "b">>,
     <<":", "-", "-", "-", ":", "|", "-", "-", "-">>,
     <<"-", "-", "-", "|", "-", "-", "-">>,
     <<"-", "-", "-", ":", " ", "|", ":", "-", "-", "-", "-">>,
     <<"|", "a", "|", "b", "|", "c", "|">>,
     <<"a", "|">>,
     <<"x">>,
     <<>>}

\* The documents, with either line ending.
TableDocs ==
    {JoinWith(ls, eol) : ls \in SeqsUpTo(TableLines, MaxLines) \ {<<>>},
                         eol \in {<<"\n">>, <<"\r", "\n">>}}

InitTables ==
    /\ lastIndex = 0
    /\ pc = "ready"
    /\ markdown \in TableDocs
    /\ lineNumber = 0
    /\ activeBlockIndex = 0
    /\ rendered = None
    /\ cosmicWords = None
    /\ html = None
    /\ config = None
    /\ previewHtml = None
    /\ cosmicWord = None
    /\ cosmicWordHtml = None
    /\ extractedFootnotes = None
    /\ contentBefore = None
    /\ status = None
    /\ dirtyHtml = None
    /\ cleanHtml = None
    /\ calls = None
    /\ headings = None
    /\ checklistProgress = None
    /\ document = None
    /\ error = None
    /\ callArgument = None
    /\ runtime = None
    /\ classList = None
    /\ opened = None
    /\ printActions = None
    /\ applied = None
    /\ disk = None
    /\ saving = None
    /\ save = None
    /\ replace = None
    /\ replacedDocument = None
    /\ userActions = None
    /\ cosmicOpen = None
    /\ cosmicPlaying = None
    /\ cosmicIndex = None
    /\ interval = None

\* formatTables
FormatTables ==
    /\ pc \in {"ready", "formatted"}
    /\ LET formatted == formatMarkdownTables(markdown)
       IN  /\ markdown' = formatted
           /\ status' = IF formatted = markdown THEN "No table changes needed"
                        ELSE "Tables formatted"
    /\ contentBefore' = markdown
    /\ pc' = IF pc = "ready" THEN "formatted" ELSE "formatted again"
    /\ UNCHANGED <<lineNumber, activeBlockIndex, rendered, cosmicWords, html, config,
                   previewHtml, cosmicWord, cosmicWordHtml, extractedFootnotes,
                   dirtyHtml, cleanHtml, lastIndex, calls, headings, checklistProgress,
                   document, error, callArgument, runtime, classList, opened,
                   printActions, applied, disk, saving, save, replace, replacedDocument,
                   userActions, cosmicOpen, cosmicPlaying, cosmicIndex, interval>>

NextTables == FormatTables

SpecTables == InitTables /\ [][NextTables]_vars

\* C15: formatMarkdownTables is idempotent: formatting a formatted text
\* changes nothing.
C15_Idempotent ==
    pc = "formatted again" => markdown = contentBefore /\ status = "No table changes needed"

\* The lines of a text with their carriage returns, and the lines that
\* belong to recognised tables: a line with a pipe, the valid separator line
\* right after it and the lines with a pipe that follow.
RawLines(md) == SplitOn(md, "\n", 1, <<>>, <<>>)
StartsTable(lines, i) ==
    /\ IncludesPipe(lines[i])
    /\ i + 1 <= Len(lines)
    /\ TABLE_SEPARATOR_PATTERN(lines[i + 1])
RECURSIVE ClaimTableLines(_, _)
ClaimTableLines(lines, i) ==
    IF i > Len(lines) THEN {}
    ELSE IF StartsTable(lines, i)
    THEN (i .. TableEnd(lines, i + 2) - 1) \cup ClaimTableLines(lines, TableEnd(lines, i + 2))
    ELSE ClaimTableLines(lines, i + 1)
RECURSIVE ClaimTableStarts(_, _)
ClaimTableStarts(lines, i) ==
    IF i > Len(lines) THEN {}
    ELSE IF StartsTable(lines, i)
    THEN {i} \cup ClaimTableStarts(lines, TableEnd(lines, i + 2))
    ELSE ClaimTableStarts(lines, i + 1)

\* C16: a text without a line with a pipe followed by a valid separator line
\* is returned identical, line endings included; in a text with tables every
\* line outside a recognised table is emitted unchanged at its position.
C16_PassThrough ==
    pc = "formatted" =>
        LET lines == SplitLines(contentBefore)
        IN  /\ (~\E i \in 1 .. Len(lines) : StartsTable(lines, i)) => markdown = contentBefore
            /\ Len(RawLines(markdown)) = Len(RawLines(contentBefore))
            /\ \A k \in 1 .. Len(RawLines(contentBefore)) :
                  k \notin ClaimTableLines(lines, 1) =>
                      RawLines(markdown)[k] = RawLines(contentBefore)[k]

\* What C17 and C18 say of the table that starts at line i of the text before
\* formatting: its rows, its cell count and its column widths.
ClaimMax(S) == CHOOSE m \in S : \A n \in S : m >= n
ClaimRows(lines, i) == i .. TableEnd(lines, i + 2) - 1
ClaimCellCount(lines, i) ==
    ClaimMax({Len(parseCells(lines[k])) : k \in ClaimRows(lines, i)})
ClaimCell(lines, k, c) ==
    IF c <= Len(parseCells(lines[k])) THEN parseCells(lines[k])[c] ELSE <<>>
ClaimWidth(lines, i, c) ==
    ClaimMax({3} \cup {Len(ClaimCell(lines, k, c)) : k \in ClaimRows(lines, i) \ {i + 1}})
\* The cells of an emitted line, blanks included: what stands between its pipes.
EmittedCells(line) ==
    IF Len(line) >= 2 /\ line[1] = "|" /\ line[Len(line)] = "|"
    THEN SplitOn(SubSeq(line, 2, Len(line) - 1), "|", 1, <<>>, <<>>)
    ELSE <<>>
\* An emitted cell holds a blank, the text, blanks up to the width and a blank.
PaddedTo(emitted, text, width) ==
    /\ Len(emitted) = width + 2
    /\ Len(text) <= width
    /\ SubSeq(emitted, 2, Len(text) + 1) = text
    /\ \A j \in 1 .. Len(emitted) : (j = 1 \/ j > Len(text) + 1) => emitted[j] = " "

\* C17: every emitted row of a recognised table has as many cells as the
\* longest row of the table, missing cells empty, every header and data cell
\* padded with blanks to max(3, longest cell of the column, the separator row
\* left out), and all emitted rows of the table are equally long.
C17_RowsPadded ==
    pc = "formatted" =>
        LET lines   == SplitLines(contentBefore)
            emitted == SplitLines(markdown)
        IN  \A i \in ClaimTableStarts(lines, 1) :
                /\ \A k \in ClaimRows(lines, i) :
                      /\ Len(EmittedCells(emitted[k])) = ClaimCellCount(lines, i)
                      /\ Len(emitted[k]) = Len(emitted[i])
                      /\ k # i + 1 =>
                            \A c \in 1 .. ClaimCellCount(lines, i) :
                                PaddedTo(EmittedCells(emitted[k])[c], ClaimCell(lines, k, c),
                                         ClaimWidth(lines, i, c))

\* A table with rows of different cell counts, a cell longer than three
\* characters and a separator cell longer than its column has been formatted.
C17_Witness ==
    /\ pc = "formatted"
    /\ LET lines == SplitLines(contentBefore)
       IN  \E i \in ClaimTableStarts(lines, 1) :
               /\ \E k \in ClaimRows(lines, i) :
                      Len(parseCells(lines[k])) < ClaimCellCount(lines, i)
               /\ \E c \in 1 .. ClaimCellCount(lines, i) :
                      /\ ClaimWidth(lines, i, c) > 3
                      /\ Len(ClaimCell(lines, i + 1, c)) > ClaimWidth(lines, i, c)
               /\ Cardinality(ClaimRows(lines, i)) = 3
               /\ SplitLines(markdown)[i] # lines[i]

\* The alignment a separator cell asks for: its leading and trailing colon.
ClaimAlignment(cell) ==
    [left  |-> cell # <<>> /\ cell[1] = ":",
     right |-> cell # <<>> /\ cell[Len(cell)] = ":"]

\* C18: in the emitted separator row every column keeps the alignment of the
\* original separator cell, holds only hyphens besides the colons and is as
\* long as the column width.
C18_SeparatorRow ==
    pc = "formatted" =>
        LET lines   == SplitLines(contentBefore)
            emitted == SplitLines(markdown)
        IN  \A i \in ClaimTableStarts(lines, 1) :
                /\ Len(EmittedCells(emitted[i + 1])) = ClaimCellCount(lines, i)
                /\ \A c \in 1 .. ClaimCellCount(lines, i) :
                      LET cell == Trim(EmittedCells(emitted[i + 1])[c])
                      IN  /\ Len(cell) = ClaimWidth(lines, i, c)
                          /\ EmittedCells(emitted[i + 1])[c] = <<" ">> \o cell \o <<" ">>
                          /\ ClaimAlignment(cell) = ClaimAlignment(ClaimCell(lines, i + 1, c))
                          /\ \A j \in 1 .. Len(cell) :
                                \/ cell[j] = "-"
                                \/ j = 1 /\ ClaimAlignment(cell).left
                                \/ j = Len(cell) /\ ClaimAlignment(cell).right

\* A table with a right-aligned column and a left-aligned column whose
\* separator cell was longer than the new width has been formatted.
C18_Witness ==
    /\ pc = "formatted"
    /\ LET lines == SplitLines(contentBefore)
       IN  \E i \in ClaimTableStarts(lines, 1) :
               /\ ClaimAlignment(ClaimCell(lines, i + 1, 1)) = [left |-> FALSE, right |-> TRUE]
               /\ ClaimAlignment(ClaimCell(lines, i + 1, 2)) = [left |-> TRUE, right |-> FALSE]
               /\ Len(ClaimCell(lines, i + 1, 2)) > ClaimWidth(lines, i, 2)
               /\ SplitLines(markdown)[i + 1] # lines[i + 1]

(***************************************************************************)
(* The sanitizer on html strings.  DOMPurify.sanitize parses the string    *)
(* into a document, removes what the profile does not allow and writes     *)
(* the document back as a string.  An html string is a sequence of tokens: *)
(* tags and characters.  The parser follows the tree construction rules    *)
(* of HTML for the tags of the model: a <p> start tag closes an open p     *)
(* element in button scope, a </p> end tag without one makes an empty p    *)
(* element, object bounds the scope, and script holds raw text.            *)
(***************************************************************************)

HtmlOpenTokens == {"<p>", "<object>", "<span onclick>", "<span>", "<script>"}
HtmlCloseTokens == {"</p>", "</span>", "</script>"}

ElementOf(tok, parent) ==
    CASE tok = "<p>" -> Elem("p", parent, "", {})
      [] tok = "<object>" -> Elem("object", parent, "", {})
      [] tok = "<span onclick>" -> Elem("span", parent, "", {<<"onclick", <<"x">>>>})
      [] tok = "<span>" -> Elem("span", parent, "", {})
      [] tok = "<script>" -> Elem("script", parent, "", {})

OpenTokenOf(n) ==
    CASE n.tag = "p" -> "<p>"
      [] n.tag = "object" -> "<object>"
      [] n.tag = "span" -> IF n.attrs = {} THEN "<span>" ELSE "<span onclick>"
      [] n.tag = "script" -> "<script>"

CloseTokenOf(n) ==
    CASE n.tag = "p" -> "</p>"
      [] n.tag = "object" -> "</object>"
      [] n.tag = "span" -> "</span>"
      [] n.tag = "script" -> "</script>"

\* Elements that bound button scope, and the special elements an end tag
\* does not reach across.
ScopeBarriers == {"object"}
SpecialTags == {"p", "object", "script"}

\* The highest position of the stack of open elements that holds a tag
\* element with nothing of stop above it, 0 when there is none.
InScope(nodes, open, tag, stop) ==
    LET found == {k \in 1 .. Len(open) :
                     /\ nodes[open[k]].tag = tag
                     /\ \A j \in k + 1 .. Len(open) : nodes[open[j]].tag \notin stop}
    IN  IF found = {} THEN 0 ELSE CHOOSE k \in found : \A j \in found : k >= j

RECURSIVE TreeFrom(_, _, _, _)
\* The tree construction stage from token i on: open is the stack of open
\* elements, out the document so far.
TreeFrom(s, i, open, out) ==
    IF i > Len(s) THEN out
    ELSE LET tok == s[i]
             top == IF open = <<>> THEN 0 ELSE open[Len(open)]
         IN  IF top # 0 /\ out[top].tag = "script"
             THEN IF tok = "</script>"
                  THEN TreeFrom(s, i + 1, SubSeq(open, 1, Len(open) - 1), out)
                  ELSE TreeFrom(s, i + 1, open, AppendText(out, top, <<tok>>))
             ELSE IF tok = "<p>"
             THEN LET p      == InScope(out, open, "p", ScopeBarriers)
                      closed == IF p = 0 THEN open ELSE SubSeq(open, 1, p - 1)
                      parent == IF closed = <<>> THEN 0 ELSE closed[Len(closed)]
                  IN  TreeFrom(s, i + 1, Append(closed, Len(out) + 1),
                               Append(out, ElementOf(tok, parent)))
             ELSE IF tok \in HtmlOpenTokens
             THEN TreeFrom(s, i + 1, Append(open, Len(out) + 1),
                           Append(out, ElementOf(tok, top)))
             ELSE IF tok = "</p>"
             THEN LET p == InScope(out, open, "p", ScopeBarriers)
                  IN  IF p = 0
                      THEN TreeFrom(s, i + 1, open, Append(out, ElementOf("<p>", top)))
                      ELSE TreeFrom(s, i + 1, SubSeq(open, 1, p - 1), out)
             ELSE IF tok = "</span>"
             THEN LET e == InScope(out, open, "span", SpecialTags)
                  IN  TreeFrom(s, i + 1, IF e = 0 THEN open ELSE SubSeq(open, 1, e - 1), out)
             ELSE IF tok = "</script>"
             THEN TreeFrom(s, i + 1, open, out)
             ELSE TreeFrom(s, i + 1, open, AppendText(out, top, <<tok>>))

\* The document the sanitizer builds from the string.
ParseTokens(s) == TreeFrom(s, 1, <<>>, <<>>)

\* The end tags of the open elements above position k of the stack.
EndTags(nodes, open, k) ==
    [j \in 1 .. Len(open) - k |-> CloseTokenOf(nodes[open[Len(open) - j + 1]])]

RECURSIVE SerializeFrom(_, _, _, _)
\* body.innerHTML from node i on: open holds the elements not yet closed.
SerializeFrom(nodes, i, open, out) ==
    IF i > Len(nodes) THEN out \o EndTags(nodes, open, 0)
    ELSE LET n    == nodes[i]
             k    == IF n.parent = 0 THEN 0
                     ELSE CHOOSE j \in 1 .. Len(open) : open[j] = n.parent
             kept == SubSeq(open, 1, k)
             done == out \o EndTags(nodes, open, k)
         IN  IF n.kind = "text"
             THEN SerializeFrom(nodes, i + 1, kept, done \o n.text)
             ELSE SerializeFrom(nodes, i + 1, Append(kept, i), Append(done, OpenTokenOf(n)))

Serialize(nodes) == SerializeFrom(nodes, 1, <<>>, <<>>)

\* DOMPurify.sanitize(html, ...) from string to string.
SanitizeString(s) == Serialize(sanitize(ParseTokens(s)))

MaxHtmlLen == 4

HtmlTokens == {"<p>", "</p>", "<object>", "<span onclick>", "<script>", "</script>", "x"}

InitSanitize ==
    /\ lastIndex = 0
    /\ pc = "dirty"
    /\ dirtyHtml \in SeqsUpTo(HtmlTokens, MaxHtmlLen)
    /\ cleanHtml = None
    /\ markdown = None
    /\ lineNumber = None
    /\ activeBlockIndex = None
    /\ rendered = None
    /\ cosmicWords = None
    /\ html = None
    /\ config = None
    /\ previewHtml = None
    /\ cosmicWord = None
    /\ cosmicWordHtml = None
    /\ extractedFootnotes = None
    /\ contentBefore = None
    /\ status = None
    /\ calls = None
    /\ headings = None
    /\ checklistProgress = None
    /\ document = None
    /\ error = None
    /\ callArgument = None
    /\ runtime = None
    /\ classList = None
    /\ opened = None
    /\ printActions = None
    /\ applied = None
    /\ disk = None
    /\ saving = None
    /\ save = None
    /\ replace = None
    /\ replacedDocument = None
    /\ userActions = None
    /\ cosmicOpen = None
    /\ cosmicPlaying = None
    /\ cosmicIndex = None
    /\ interval = None

\* The sanitizer applied to the string, and then to what it returned.
Sanitize ==
    /\ pc \in {"dirty", "sanitized"}
    /\ LET argument == IF pc = "dirty" THEN dirtyHtml ELSE cleanHtml
       IN  /\ dirtyHtml' = argument
           /\ cleanHtml' = SanitizeString(argument)
    /\ pc' = IF pc = "dirty" THEN "sanitized" ELSE "sanitized again"
    /\ UNCHANGED <<markdown, lineNumber, activeBlockIndex, rendered, cosmicWords, html,
                   config, previewHtml, cosmicWord, cosmicWordHtml, extractedFootnotes,
                   contentBefore, status, lastIndex, calls, headings, checklistProgress,
                   document, error, callArgument, runtime, classList, opened,
                   printActions, applied, disk, saving, save, replace, replacedDocument,
                   userActions, cosmicOpen, cosmicPlaying, cosmicIndex, interval>>

NextSanitize == Sanitize

SpecSanitize == InitSanitize /\ [][NextSanitize]_vars

\* C20: the sanitizer applied to html it has already sanitized returns
\* exactly that html.
C20_Idempotent ==
    pc = "sanitized again" => cleanHtml = dirtyHtml

(***************************************************************************)
(* extractHeadings and getChecklistProgress                                *)
(***************************************************************************)

\* The last position of the run of characters of set that starts at position
\* i of the line, i - 1 when the character at i is not in the set.
RunEnd(line, i, set) ==
    CHOOSE e \in i - 1 .. Len(line) :
        /\ \A k \in i .. e : line[k] \in set
        /\ e < Len(line) => line[e + 1] \notin set

\* Characters the dot of a pattern does not match.
LineTerminators == {"\n", "\r"}

\* line.match(/^(#{1,6})\s+(.+)$/u): the whitespace run gives its last
\* character back when it reaches the end of the line.
HeadingMatch(line) ==
    LET level == RunEnd(line, 1, {"#"})
        blank == RunEnd(line, level + 1, Whitespace)
        from  == IF blank = Len(line) THEN blank ELSE blank + 1
        rest  == IF line = <<>> THEN <<>> ELSE SubSeq(line, from, Len(line))
    IN  [matched |-> /\ level \in 1 .. 6
                     /\ blank > level
                     /\ from > level + 1
                     /\ \A k \in 1 .. Len(rest) : rest[k] \notin LineTerminators,
         level   |-> level,
         text    |-> Trim(rest)]

RECURSIVE CollapseWhitespace(_, _)
\* replace(/\s+/gu, "-")
CollapseWhitespace(s, inRun) ==
    IF s = <<>> THEN <<>>
    ELSE IF Head(s) \notin Whitespace THEN <<Head(s)>> \o CollapseWhitespace(Tail(s), FALSE)
    ELSE IF inRun THEN CollapseWhitespace(Tail(s), TRUE)
    ELSE <<"-">> \o CollapseWhitespace(Tail(s), TRUE)

\* slugify: lower case, trimmed, without the characters that are neither
\* letter, digit, whitespace nor hyphen, whitespace runs as one hyphen.
slugify(value) ==
    CollapseWhitespace(
        SelectSeq(Trim(ToLowerCase(value)),
                  LAMBDA ch : ch \in LowerLetters \cup Digits \cup Whitespace \cup {"-"}),
        FALSE)

RECURSIVE HeadingsFrom(_, _, _)
HeadingsFrom(lines, index, result) ==
    IF index > Len(lines) THEN result
    ELSE LET match == HeadingMatch(lines[index])
         IN  IF ~match.matched \/ match.text = <<>>
             THEN HeadingsFrom(lines, index + 1, result)
             ELSE HeadingsFrom(lines, index + 1,
                               Append(result, [line  |-> index,
                                               level |-> match.level,
                                               text  |-> match.text,
                                               slug  |-> slugify(match.text)]))

extractHeadings(md) == HeadingsFrom(SplitLines(md), 1, <<>>)

\* line.match(CHECKLIST_PATTERN): /^\s*(?:[-*+]|\d+\.)\s+\[([ xX])\]\s+/u
CHECKLIST_PATTERN(line) ==
    LET start  == RunEnd(line, 1, Whitespace) + 1
        digits == RunEnd(line, start, Digits)
        marker == IF start <= Len(line) /\ line[start] \in {"-", "*", "+"} THEN start
                  ELSE IF digits >= start /\ digits < Len(line) /\ line[digits + 1] = "."
                  THEN digits + 1
                  ELSE 0
        blank  == RunEnd(line, marker + 1, Whitespace)
    IN  [matched |-> /\ marker > 0
                     /\ blank > marker
                     /\ blank + 4 <= Len(line)
                     /\ line[blank + 1] = "["
                     /\ line[blank + 2] \in {" ", "x", "X"}
                     /\ line[blank + 3] = "]"
                     /\ line[blank + 4] \in Whitespace,
         mark    |-> IF blank + 2 <= Len(line) THEN line[blank + 2] ELSE ""]

\* getChecklistProgress counting the lower-case x only.
getChecklistProgressMutant(md) ==
    LET lines     == SplitLines(md)
        items     == {k \in 1 .. Len(lines) : CHECKLIST_PATTERN(lines[k]).matched}
        total     == Cardinality(items)
        completed == Cardinality({k \in items : CHECKLIST_PATTERN(lines[k]).mark = "x"})
    IN  [total     |-> total,
         completed |-> completed,
         percent   |-> IF total > 0 THEN RoundDiv(completed * 100, total) ELSE 0]

getChecklistProgress(md) ==
    LET lines     == SplitLines(md)
        items     == {k \in 1 .. Len(lines) : CHECKLIST_PATTERN(lines[k]).matched}
        total     == Cardinality(items)
        completed == Cardinality({k \in items :
                                     LowerChar(CHECKLIST_PATTERN(lines[k]).mark) = "x"})
    IN  [total     |-> total,
         completed |-> completed,
         percent   |-> IF total > 0 THEN RoundDiv(completed * 100, total) ELSE 0]

(***************************************************************************)
(* The pipeline operations called one after another on different          *)
(* documents, as the App calls them on every content change.  The only     *)
(* object the operations share that can change is BIONIC_WORD_PATTERN      *)
(* with its lastIndex; the footnote order, the reference pattern of        *)
(* applyFootnotes and the documents are created in each call.              *)
(***************************************************************************)

MaxCalls == 3

\* Documents every operation takes, and documents for the operations that
\* read the text only.
RenderCallDocs ==
    {<<"a", "b", " ", "c", "d">>,
     <<"#", " ", "a", "b", "\n", "c", "[", "^", "a", "]">>,
     <<"x", "[", "^", "b", "]", " ", "y", "z", "\n", "\n", "[", "^", "b", "]", ":", " ", "w">>}
TextCallDocs ==
    {<<"a", "b", " ", "c", "d">>,
     <<"#", " ", "a", "b", "\n", "-", " ", "[", "x", "]", " ", "c", "d">>,
     <<"a", "b", "|", "c", "\n", "-", "-", "-", "|", "-", "-", "-">>}
CallLines == {1, 2}

PipelineOps ==
    {"renderMarkdown", "extractReadingWords", "applyBionicReading", "extractHeadings",
     "getChecklistProgress", "getBlockIndexForLine", "formatMarkdownTables"}

\* The number of different calls recorded.
CallCount ==
    Cardinality(UNION {{<<op, c>> : c \in calls[op]} : op \in PipelineOps})

InitCalls ==
    /\ lastIndex = 0
    /\ calls = [op \in PipelineOps |-> {}]
    /\ pc = "loaded"
    /\ markdown = None
    /\ lineNumber = None
    /\ activeBlockIndex = None
    /\ rendered = None
    /\ cosmicWords = None
    /\ html = None
    /\ config = None
    /\ previewHtml = None
    /\ cosmicWord = None
    /\ cosmicWordHtml = None
    /\ extractedFootnotes = None
    /\ contentBefore = None
    /\ status = None
    /\ dirtyHtml = None
    /\ cleanHtml = None
    /\ headings = None
    /\ checklistProgress = None
    /\ document = None
    /\ error = None
    /\ callArgument = None
    /\ runtime = None
    /\ classList = None
    /\ opened = None
    /\ printActions = None
    /\ applied = None
    /\ disk = None
    /\ saving = None
    /\ save = None
    /\ replace = None
    /\ replacedDocument = None
    /\ userActions = None
    /\ cosmicOpen = None
    /\ cosmicPlaying = None
    /\ cosmicIndex = None
    /\ interval = None

\* One call returns: it is recorded with its arguments and its result.
Returned(op, args, result, last) ==
    /\ CallCount < MaxCalls
    /\ calls' = [calls EXCEPT ![op] = @ \cup {[args |-> args, result |-> result]}]
    /\ lastIndex' = last
    /\ pc' = op
    /\ UNCHANGED <<markdown, lineNumber, activeBlockIndex, rendered, cosmicWords, html,
                   config, previewHtml, cosmicWord, cosmicWordHtml, extractedFootnotes,
                   contentBefore, status, dirtyHtml, cleanHtml, headings,
                   checklistProgress, document, error, callArgument, runtime, classList,
                   opened, printActions, applied, disk, saving, save, replace,
                   replacedDocument, userActions, cosmicOpen, cosmicPlaying,
                   cosmicIndex, interval>>

CallRenderMarkdown ==
    \E md \in RenderCallDocs :
        Returned("renderMarkdown", <<md>>, renderMarkdown(md), lastIndex)

CallExtractReadingWords ==
    \E md \in RenderCallDocs :
        Returned("extractReadingWords", <<md>>, extractReadingWords(md),
                 LastIndexAfterMatch(TextContent(ParseHtml(renderMarkdown(md).html), 0)))

CallApplyBionicReading ==
    \E md \in RenderCallDocs :
        Returned("applyBionicReading", <<renderMarkdown(md).html, UltraRead>>,
                 applyBionicReading(renderMarkdown(md).html, UltraRead), lastIndex)

CallExtractHeadings ==
    \E md \in TextCallDocs :
        Returned("extractHeadings", <<md>>, extractHeadings(md), lastIndex)

CallGetChecklistProgress ==
    \E md \in TextCallDocs :
        Returned("getChecklistProgress", <<md>>, getChecklistProgress(md), lastIndex)

CallGetBlockIndexForLine ==
    \E md \in TextCallDocs, n \in CallLines :
        Returned("getBlockIndexForLine", <<md, n>>, getBlockIndexForLine(md, n), lastIndex)

CallFormatMarkdownTables ==
    \E md \in TextCallDocs :
        Returned("formatMarkdownTables", <<md>>, formatMarkdownTables(md), lastIndex)

NextCalls ==
    \/ CallRenderMarkdown
    \/ CallExtractReadingWords
    \/ CallApplyBionicReading
    \/ CallExtractHeadings
    \/ CallGetChecklistProgress
    \/ CallGetBlockIndexForLine
    \/ CallFormatMarkdownTables

SpecCalls == InitCalls /\ [][NextCalls]_vars

\* C19: every pipeline operation returns the same result for the same
\* arguments whatever calls on other documents came before it, and the
\* position of the shared word pattern is not carried from call to call.
C19_NoCarriedState ==
    pc # "loaded" =>
        /\ lastIndex = 0
        /\ \A op \in PipelineOps :
              \A c \in calls[op], d \in calls[op] : c.args = d.args => c.result = d.result

\* applyBionicReading has returned for one document after extractReadingWords
\* ran on another document and renderMarkdown on a third.
C19_Witness ==
    /\ pc = "applyBionicReading"
    /\ \E c \in calls["applyBionicReading"], d \in calls["extractReadingWords"],
          e \in calls["renderMarkdown"], md \in RenderCallDocs :
          /\ c.args[1] = renderMarkdown(md).html
          /\ c.result # c.args[1]
          /\ d.args[1] # md
          /\ d.result # <<>>
          /\ e.args[1] \notin {md, d.args[1]}

(***************************************************************************)
(* extractHeadings on documents of heading-like lines.                     *)
(***************************************************************************)

HeadingLines ==
    {<<"#", " ", "a">>,
     <<"#", "#", "#", "\t", " ", "B", " ", "c", "!", " ">>,
     <<"#", "a">>,
     <<"#", "#", "#", "#", "#", "#", "#", " ", "a">>,
     <<"#", "#", "#", "#", "#", "#", " ", "a">>,
     <<"#", " ", " ">>,
     <<"#", " ", "a", "\r">>,
     <<"a", " ", "#", " ", "b">>,
     <<>>}

InitHeadings ==
    /\ lastIndex = 0
    /\ pc = "ready"
    /\ markdown \in {JoinLines(ls) : ls \in SeqsUpTo(HeadingLines, MaxLines) \ {<<>>}}
    /\ lineNumber = None
    /\ activeBlockIndex = None
    /\ rendered = None
    /\ cosmicWords = None
    /\ html = None
    /\ config = None
    /\ previewHtml = None
    /\ cosmicWord = None
    /\ cosmicWordHtml = None
    /\ extractedFootnotes = None
    /\ contentBefore = None
    /\ status = None
    /\ dirtyHtml = None
    /\ cleanHtml = None
    /\ calls = None
    /\ headings = None
    /\ checklistProgress = None
    /\ document = None
    /\ error = None
    /\ callArgument = None
    /\ runtime = None
    /\ classList = None
    /\ opened = None
    /\ printActions = None
    /\ applied = None
    /\ disk = None
    /\ saving = None
    /\ save = None
    /\ replace = None
    /\ replacedDocument = None
    /\ userActions = None
    /\ cosmicOpen = None
    /\ cosmicPlaying = None
    /\ cosmicIndex = None
    /\ interval = None

\* The headings memo of the App.
ExtractHeadings ==
    /\ pc = "ready"
    /\ headings' = extractHeadings(markdown)
    /\ pc' = "headings"
    /\ UNCHANGED <<markdown, lineNumber, activeBlockIndex, rendered, cosmicWords, html,
                   config, previewHtml, cosmicWord, cosmicWordHtml, extractedFootnotes,
                   contentBefore, status, dirtyHtml, cleanHtml, lastIndex, calls,
                   checklistProgress, document, error, callArgument, runtime, classList,
                   opened, printActions, applied, disk, saving, save, replace,
                   replacedDocument, userActions, cosmicOpen, cosmicPlaying,
                   cosmicIndex, interval>>

NextHeadings == ExtractHeadings

SpecHeadings == InitHeadings /\ [][NextHeadings]_vars

\* What C21 calls a heading line: h '#' characters (1 to 6), then w
\* whitespace characters, then text that is not only whitespace.
ClaimHeadingShape(line, h, w) ==
    /\ h + w < Len(line)
    /\ \A k \in 1 .. h : line[k] = "#"
    /\ \A k \in h + 1 .. h + w : line[k] \in Whitespace
    /\ line[h + w + 1] \notin Whitespace
ClaimIsHeadingLine(line) ==
    \E h \in 1 .. 6, w \in 1 .. Len(line) : ClaimHeadingShape(line, h, w)
ClaimLevel(line) ==
    CHOOSE h \in 1 .. 6 : \E w \in 1 .. Len(line) : ClaimHeadingShape(line, h, w)
ClaimHeadingText(line) ==
    LET w == CHOOSE n \in 1 .. Len(line) : ClaimHeadingShape(line, ClaimLevel(line), n)
    IN  Trim(SubSeq(line, ClaimLevel(line) + w + 1, Len(line)))

\* C21: extractHeadings returns one entry per line made of 1 to 6 '#', then
\* whitespace, then text that is not only whitespace, in document order,
\* with the line number, the number of '#' and the trimmed text; other
\* lines yield no entry.
C21_OneEntryPerHeadingLine ==
    pc = "headings" =>
        LET lines == SplitLines(markdown)
            found == {k \in 1 .. Len(lines) : ClaimIsHeadingLine(lines[k])}
        IN  /\ {headings[e].line : e \in 1 .. Len(headings)} = found
            /\ Len(headings) = Cardinality(found)
            /\ \A e \in 1 .. Len(headings) :
                  /\ e > 1 => headings[e - 1].line < headings[e].line
                  /\ headings[e].line \in found =>
                        /\ headings[e].level = ClaimLevel(lines[headings[e].line])
                        /\ headings[e].text = ClaimHeadingText(lines[headings[e].line])

(***************************************************************************)
(* getChecklistProgress on documents of checklist-like lines.              *)
(***************************************************************************)

ChecklistLines ==
    {<<"-", " ", "[", "x", "]", " ", "a">>,
     <<" ", "*", " ", "[", " ", "]", " ", "b">>,
     <<"+", "\t", "[", "X", "]", " ">>,
     <<"1", "2", ".", " ", "[", "x", "]", " ", "c">>,
     <<"-", " ", "[", "x", "]">>,
     <<"-", "[", "x", "]", " ", "a">>,
     <<"-", " ", "[", "y", "]", " ", "a">>,
     <<"1", " ", "[", "x", "]", " ", "a">>,
     <<"a", " ", "-", " ", "[", "x", "]", " ", "b">>}

InitChecklist ==
    /\ lastIndex = 0
    /\ pc = "ready"
    /\ markdown \in {JoinLines(ls) : ls \in SeqsUpTo(ChecklistLines, MaxLines) \ {<<>>}}
    /\ lineNumber = None
    /\ activeBlockIndex = None
    /\ rendered = None
    /\ cosmicWords = None
    /\ html = None
    /\ config = None
    /\ previewHtml = None
    /\ cosmicWord = None
    /\ cosmicWordHtml = None
    /\ extractedFootnotes = None
    /\ contentBefore = None
    /\ status = None
    /\ dirtyHtml = None
    /\ cleanHtml = None
    /\ calls = None
    /\ headings = None
    /\ checklistProgress = None
    /\ document = None
    /\ error = None
    /\ callArgument = None
    /\ runtime = None
    /\ classList = None
    /\ opened = None
    /\ printActions = None
    /\ applied = None
    /\ disk = None
    /\ saving = None
    /\ save = None
    /\ replace = None
    /\ replacedDocument = None
    /\ userActions = None
    /\ cosmicOpen = None
    /\ cosmicPlaying = None
    /\ cosmicIndex = None
    /\ interval = None

\* The checklistProgress memo of the App.
GetChecklistProgress ==
    /\ pc = "ready"
    /\ checklistProgress' = getChecklistProgress(markdown)
    /\ pc' = "checklist"
    /\ UNCHANGED <<markdown, lineNumber, activeBlockIndex, rendered, cosmicWords, html,
                   config, previewHtml, cosmicWord, cosmicWordHtml, extractedFootnotes,
                   contentBefore, status, dirtyHtml, cleanHtml, lastIndex, calls,
                   headings, document, error, callArgument, runtime, classList, opened,
                   printActions, applied, disk, saving, save, replace, replacedDocument,
                   userActions, cosmicOpen, cosmicPlaying, cosmicIndex, interval>>

NextChecklist == GetChecklistProgress

SpecChecklist == InitChecklist /\ [][NextChecklist]_vars

\* What C22 calls a line introduced by a marker and a checkbox: a blanks, a
\* marker of m characters (a bullet, or digits and a dot), w blanks and the
\* checkbox; position of the character inside the checkbox.
ClaimCheckboxAt(line, a, m, w) ==
    /\ a + m + w + 3 <= Len(line)
    /\ \A k \in 1 .. a : line[k] \in Whitespace
    /\ \/ m = 1 /\ line[a + 1] \in {"-", "*", "+"}
       \/ m > 1 /\ line[a + m] = "." /\ \A k \in a + 1 .. a + m - 1 : line[k] \in Digits
    /\ \A k \in a + m + 1 .. a + m + w : line[k] \in Whitespace
    /\ line[a + m + w + 1] = "["
    /\ line[a + m + w + 2] \in {" ", "x", "X"}
    /\ line[a + m + w + 3] = "]"
ClaimCheckboxes(line) ==
    {p \in 1 .. Len(line) :
        \E a \in 0 .. p, m \in 1 .. p, w \in 1 .. p :
            p = a + m + w + 2 /\ ClaimCheckboxAt(line, a, m, w)}
\* The same with whitespace after the checkbox.
ClaimSpacedCheckboxes(line) ==
    {p \in ClaimCheckboxes(line) : p + 2 <= Len(line) /\ line[p + 2] \in Whitespace}

ClaimProgress(total, completed) ==
    /\ checklistProgress.total = total
    /\ checklistProgress.completed = completed
    /\ completed \in 0 .. total
    /\ checklistProgress.percent \in 0 .. 100
    /\ total = 0 => checklistProgress.percent = 0
    /\ total > 0 =>
          /\ 2 * checklistProgress.percent * total - total <= 200 * completed
          /\ 200 * completed < 2 * checklistProgress.percent * total + total

pipelineVars ==
    <<markdown, lineNumber, activeBlockIndex, rendered, cosmicWords, html, config,
      previewHtml, cosmicWord, cosmicWordHtml, extractedFootnotes, contentBefore,
      dirtyHtml, cleanHtml, lastIndex, calls, headings, checklistProgress>>

PipelineIdle ==
    /\ lastIndex = 0
    /\ markdown = None
    /\ lineNumber = None
    /\ activeBlockIndex = None
    /\ rendered = None
    /\ cosmicWords = None
    /\ html = None
    /\ config = None
    /\ previewHtml = None
    /\ cosmicWord = None
    /\ cosmicWordHtml = None
    /\ extractedFootnotes = None
    /\ contentBefore = None
    /\ dirtyHtml = None
    /\ cleanHtml = None
    /\ calls = None
    /\ headings = None
    /\ checklistProgress = None

Null == "null"

createInitialDocument ==
    [path |-> Null, content |-> <<>>, dirty |-> FALSE, mtimeMs |-> 0,
     lastSavedAtMs |-> 0, recovered |-> FALSE]

\* setContent: the document after the call.
setContent(doc, content) ==
    IF doc.content = content THEN doc
    ELSE [doc EXCEPT !.content = content, !.dirty = TRUE]

\* loadDocument; now is Date.now().
loadDocument(payload, now) ==
    [path |-> payload.path, content |-> payload.content, dirty |-> FALSE,
     mtimeMs |-> payload.mtimeMs, lastSavedAtMs |-> now, recovered |-> FALSE]

\* markSaved that keeps the dirty flag of the document.
markSavedMutant(doc, result) ==
    [doc EXCEPT !.path = result.path, !.mtimeMs = result.mtimeMs,
                !.lastSavedAtMs = result.savedAtMs, !.recovered = FALSE]

markSaved(doc, result) ==
    [doc EXCEPT !.path = result.path, !.dirty = FALSE, !.mtimeMs = result.mtimeMs,
                !.lastSavedAtMs = result.savedAtMs, !.recovered = FALSE]

\* markRecovered that marks every draft dirty.
markRecoveredMutant(content) ==
    [path |-> Null, content |-> content, dirty |-> TRUE, mtimeMs |-> 0,
     lastSavedAtMs |-> 0, recovered |-> TRUE]

markRecovered(content) ==
    [path |-> Null, content |-> content, dirty |-> Len(content) > 0, mtimeMs |-> 0,
     lastSavedAtMs |-> 0, recovered |-> TRUE]

StoreContents == {<<>>, <<"a">>, <<"b">>}
StorePaths == {"/p", "/q"}
StoreTimes == {1, 2}

\* The variables of the handlers outside the store.
outsideStore ==
    <<runtime, classList, opened, printActions, applied, disk, saving, save, replace,
      replacedDocument, userActions, cosmicOpen, cosmicPlaying, cosmicIndex, interval>>

InitStore ==
    /\ PipelineIdle
    /\ pc = "created"
    /\ document = createInitialDocument
    /\ error = Null
    /\ status = "Ready"
    /\ callArgument = None
    /\ runtime = None
    /\ classList = None
    /\ opened = None
    /\ printActions = None
    /\ applied = None
    /\ disk = None
    /\ saving = None
    /\ save = None
    /\ replace = None
    /\ replacedDocument = None
    /\ userActions = None
    /\ cosmicOpen = None
    /\ cosmicPlaying = None
    /\ cosmicIndex = None
    /\ interval = None

SetContent ==
    \E content \in StoreContents :
        /\ document' = setContent(document, content)
        /\ callArgument' = content
        /\ pc' = "setContent"
        /\ UNCHANGED <<error, status>>
        /\ UNCHANGED outsideStore
        /\ UNCHANGED pipelineVars

LoadDocument ==
    \E path \in StorePaths, content \in StoreContents, mtimeMs \in StoreTimes,
       now \in StoreTimes :
        /\ document' = loadDocument([path |-> path, content |-> content,
                                     mtimeMs |-> mtimeMs], now)
        /\ error' = Null
        /\ callArgument' = [path |-> path, content |-> content, mtimeMs |-> mtimeMs]
        /\ pc' = "loadDocument"
        /\ UNCHANGED status
        /\ UNCHANGED outsideStore
        /\ UNCHANGED pipelineVars

MarkSaved ==
    \E path \in StorePaths, mtimeMs \in StoreTimes, savedAtMs \in StoreTimes :
        /\ document' = markSaved(document, [path |-> path, mtimeMs |-> mtimeMs,
                                            savedAtMs |-> savedAtMs])
        /\ error' = Null
        /\ callArgument' = [path |-> path, mtimeMs |-> mtimeMs, savedAtMs |-> savedAtMs]
        /\ pc' = "markSaved"
        /\ UNCHANGED status
        /\ UNCHANGED outsideStore
        /\ UNCHANGED pipelineVars

MarkRecovered ==
    \E content \in StoreContents :
        /\ document' = markRecovered(content)
        /\ callArgument' = content
        /\ pc' = "markRecovered"
        /\ UNCHANGED <<error, status>>
        /\ UNCHANGED outsideStore
        /\ UNCHANGED pipelineVars

NewDocument ==
    /\ document' = createInitialDocument
    /\ error' = Null
    /\ callArgument' = None
    /\ pc' = "newDocument"
    /\ UNCHANGED status
    /\ UNCHANGED outsideStore
    /\ UNCHANGED pipelineVars

SetError ==
    \E code \in {"IO", "CONFLICT"} :
        /\ error' = code
        /\ callArgument' = code
        /\ pc' = "setError"
        /\ UNCHANGED <<document, status>>
        /\ UNCHANGED outsideStore
        /\ UNCHANGED pipelineVars

NextStore ==
    \/ SetContent
    \/ LoadDocument
    \/ MarkSaved
    \/ MarkRecovered
    \/ NewDocument
    \/ SetError

SpecStore == InitStore /\ [][NextStore]_vars

\* C23: dirty is false right after loadDocument and right after markSaved,
\* which take path and mtimeMs from their argument, markSaved leaving the
\* content unchanged and setting lastSavedAtMs to savedAtMs; dirty is true
\* right after a setContent with a content other than the current one; a
\* setContent with the current content changes nothing.
C23_DirtyTracking ==
    [][/\ pc' = "loadDocument" =>
             /\ ~document'.dirty
             /\ document'.path = callArgument'.path
             /\ document'.mtimeMs = callArgument'.mtimeMs
       /\ pc' = "markSaved" =>
             /\ ~document'.dirty
             /\ document'.path = callArgument'.path
             /\ document'.mtimeMs = callArgument'.mtimeMs
             /\ document'.lastSavedAtMs = callArgument'.savedAtMs
             /\ document'.content = document.content
       /\ pc' = "setContent" =>
             IF callArgument' # document.content
             THEN document'.dirty /\ document'.content = callArgument'
             ELSE document' = document /\ error' = error /\ status' = status]_vars

\* A save result has been recorded for edited content under another path.
C23_Witness ==
    /\ pc = "markSaved"
    /\ ~document.dirty
    /\ document.content = <<"a">>
    /\ document.path = "/q"
    /\ document.lastSavedAtMs = 2
    /\ document.mtimeMs = 1

\* C24: after markRecovered(content), for every content, the document has
\* path = null, recovered = true and dirty = true.
C24_RecoveredIsDirty ==
    pc = "markRecovered" =>
        /\ document.path = Null
        /\ document.recovered
        /\ document.dirty

\* C24 with dirty = true for the non-empty contents only: an empty draft is
\* loaded clean.
C24_RecoveredNonEmptyIsDirty ==
    pc = "markRecovered" =>
        /\ document.path = Null
        /\ document.recovered
        /\ document.content = callArgument
        /\ document.dirty <=> callArgument # <<>>

\* A non-empty draft has been recovered.
C24_Witness ==
    /\ pc = "markRecovered"
    /\ callArgument = <<"b">>
    /\ document.dirty
    /\ document.mtimeMs = 0

\* The hyphens of a cell.
ClaimHyphens(cell) == Cardinality({j \in 1 .. Len(cell) : cell[j] = "-"})

\* C30: every separator cell emitted for a recognised table holds at least
\* three hyphens, and the emitted header line with the emitted separator line
\* starts a table for the formatter again.
C30_SeparatorRecognised ==
    pc = "formatted" =>
        LET lines   == SplitLines(contentBefore)
            emitted == SplitLines(markdown)
        IN  \A i \in ClaimTableStarts(lines, 1) :
                /\ \A c \in 1 .. Len(EmittedCells(emitted[i + 1])) :
                      ClaimHyphens(EmittedCells(emitted[i + 1])[c]) >= 3
                /\ StartsTable(emitted, i)

(***************************************************************************)
(* runPdfPrint.  The sources hold two builds of it: lib/export.ts calls    *)
(* the Tauri print command and falls back to the print function when the   *)
(* command fails; the other build calls the command in the Tauri runtime   *)
(* and the print function outside it.  A call that is awaited settles in a *)
(* later step; a print function that throws at once does so in the step    *)
(* that called it.                                                         *)
(***************************************************************************)

PDF_EXPORT_CLASS == "pdf-exporting"

MaxPrintActions == 3

storeVars == <<document, error, status, callArgument>>

\* finally that removes the class only after a print that succeeded.
RemoveExportClassMutant(classes, ok) ==
    IF ok THEN classes \ {PDF_EXPORT_CLASS} ELSE classes

\* finally { root.classList.remove(PDF_EXPORT_CLASS) }
RemoveExportClass(classes, ok) == classes \ {PDF_EXPORT_CLASS}

\* The print action started now, recorded with the class state it sees.
Started(actions, action, classes) ==
    Append(actions, [action |-> action, classPresent |-> PDF_EXPORT_CLASS \in classes,
                     outcome |-> "pending"])

\* The last print action has ended with the outcome.
Ended(actions, outcome) == [actions EXCEPT ![Len(actions)].outcome = outcome]

\* The variables runPdfPrint does not touch.
outsidePrint ==
    <<applied, disk, saving, save, replace, replacedDocument, userActions, cosmicOpen,
      cosmicPlaying, cosmicIndex, interval>>

InitPrint ==
    /\ PipelineIdle
    /\ pc = "idle"
    /\ runtime \in [build : {"lib/export.ts", "part_005"}, tauri : BOOLEAN]
    /\ classList \in SUBSET {"dark", PDF_EXPORT_CLASS}
    /\ opened = None
    /\ printActions = <<>>
    /\ document = None
    /\ error = None
    /\ status = None
    /\ callArgument = None
    /\ applied = None
    /\ disk = None
    /\ saving = None
    /\ save = None
    /\ replace = None
    /\ replacedDocument = None
    /\ userActions = None
    /\ cosmicOpen = None
    /\ cosmicPlaying = None
    /\ cosmicIndex = None
    /\ interval = None

\* runPdfPrint returns: the finally block, then the promise resolves.
Completes(classes, actions, ok) ==
    /\ classList' = RemoveExportClass(classes, ok)
    /\ printActions' = actions
    /\ opened' = ok
    /\ pc' = "done"

\* print() is called: it throws at once, or what it returns is awaited.
CallsPrint(classes, actions) ==
    \/ Completes(classes, Ended(Started(actions, "print", classes), "failed"), FALSE)
    \/ /\ classList' = classes
       /\ printActions' = Started(actions, "print", classes)
       /\ opened' = None
       /\ pc' = "awaitPrint"

\* runPdfPrint up to its first await.
RunPdfPrint ==
    /\ pc \in {"idle", "done"}
    /\ Len(printActions) < MaxPrintActions
    /\ LET classes == classList \cup {PDF_EXPORT_CLASS}
       IN  IF runtime.build = "lib/export.ts" \/ runtime.tauri
           THEN /\ classList' = classes
                /\ printActions' = Started(printActions, "invoke", classes)
                /\ opened' = None
                /\ pc' = "awaitInvoke"
           ELSE CallsPrint(classes, printActions)
    /\ UNCHANGED runtime
    /\ UNCHANGED outsidePrint
    /\ UNCHANGED storeVars
    /\ UNCHANGED pipelineVars

\* await invoke("plugin:webview|print") settles; outside the Tauri runtime
\* the command cannot succeed.
InvokeSettles ==
    /\ pc = "awaitInvoke"
    /\ \/ /\ runtime.tauri
          /\ Completes(classList, Ended(printActions, "ok"), TRUE)
       \/ IF runtime.build = "lib/export.ts"
          THEN CallsPrint(classList, Ended(printActions, "failed"))
          ELSE Completes(classList, Ended(printActions, "failed"), FALSE)
    /\ UNCHANGED runtime
    /\ UNCHANGED outsidePrint
    /\ UNCHANGED storeVars
    /\ UNCHANGED pipelineVars

\* await Promise.resolve(print()) settles.
PrintSettles ==
    /\ pc = "awaitPrint"
    /\ \E ok \in BOOLEAN :
          Completes(classList, Ended(printActions, IF ok THEN "ok" ELSE "failed"), ok)
    /\ UNCHANGED runtime
    /\ UNCHANGED outsidePrint
    /\ UNCHANGED storeVars
    /\ UNCHANGED pipelineVars

NextPrint == RunPdfPrint \/ InvokeSettles \/ PrintSettles

SpecPrint == InitPrint /\ [][NextPrint]_vars

CharAt(value, i) == IF i \in 1 .. Len(value) THEN value[i] ELSE ""

RECURSIVE NormalizeNewlines(_, _)
\* value.replace(/\r\n?/gu, "\n") from index i on
NormalizeNewlines(value, i) ==
    IF i > Len(value) THEN <<>>
    ELSE IF value[i] = "\r"
    THEN <<"\n">> \o NormalizeNewlines(value, IF CharAt(value, i + 1) = "\n" THEN i + 2 ELSE i + 1)
    ELSE <<value[i]>> \o NormalizeNewlines(value, i + 1)

normalizeLines(value) == SplitOn(NormalizeNewlines(value, 1), "\n", 1, <<>>, <<>>)

\* The alternatives of the pattern of stripBlockPrefix tried at index at, in
\* the order of the pattern: for each the index of the last character before
\* its \s+, or 0 when it does not match there.
BlockPrefixAlternatives(value, at) ==
    LET hashes == RunEnd(value, at, {"#"})
        digits == RunEnd(value, at, Digits)
        Spaced(e) == IF CharAt(value, e + 1) \in Whitespace THEN e ELSE 0
    IN  << IF hashes >= at /\ hashes - at + 1 <= 6 THEN Spaced(hashes) ELSE 0,
           IF CharAt(value, at) = ">" THEN Spaced(at) ELSE 0,
           IF CharAt(value, at) \in {"-", "*", "+"} THEN Spaced(at) ELSE 0,
           IF digits >= at /\ CharAt(value, digits + 1) = "." THEN Spaced(digits + 1) ELSE 0,
           IF /\ CharAt(value, at) = "-"
              /\ CharAt(value, at + 1) \in Whitespace
              /\ CharAt(value, at + 2) = "["
              /\ CharAt(value, at + 3) \in {" ", "x", "X"}
              /\ CharAt(value, at + 4) = "]"
           THEN Spaced(at + 4) ELSE 0 >>

\* value.replace(/^\s{0,3}(?:#{1,6}\s+|>\s+|[-*+]\s+|\d+\.\s+|-\s\[[ xX]\]\s+)/u, "")
stripBlockPrefix(value) ==
    LET at           == Min(RunEnd(value, 1, Whitespace), 3) + 1
        alternatives == BlockPrefixAlternatives(value, at)
        matching     == {k \in 1 .. Len(alternatives) : alternatives[k] > 0}
    IN  IF matching = {} THEN value
        ELSE LET first == CHOOSE k \in matching : \A j \in matching : k <= j
                 end   == RunEnd(value, alternatives[first] + 1, Whitespace)
             IN  SubSeq(value, end + 1, Len(value))

\* The formatter each command passes to toListLines, and the one of applyQuote.
Formatter(commandId, line, index) ==
    CASE commandId = "bullet-list"   -> <<"-", " ">> \o line
      [] commandId = "numbered-list" -> NumberText(index + 1) \o <<".", " ">> \o line
      [] commandId = "checklist"     -> <<"-", " ", "[", " ", "]", " ">> \o line
      [] commandId = "quote"         -> <<">", " ">> \o line

RECURSIVE ToListFrom(_, _, _, _, _)
\* The loop of toListLines from line k on.
ToListFrom(lines, k, itemIndex, output, commandId) ==
    IF k > Len(lines) THEN output
    ELSE LET cleaned == Trim(stripBlockPrefix(lines[k]))
         IN  IF Len(cleaned) = 0
             THEN ToListFrom(lines, k + 1, itemIndex, Append(output, <<>>), commandId)
             ELSE ToListFrom(lines, k + 1, itemIndex + 1,
                             Append(output, Formatter(commandId, cleaned, itemIndex)),
                             commandId)

toListLines(value, commandId) ==
    JoinLines(ToListFrom(normalizeLines(value), 1, 0, <<>>, commandId))

\* applyQuote on a selection that is not blank: the lines mapped one by one.
QuoteLines(value) ==
    LET lines == normalizeLines(value)
    IN  JoinLines([k \in 1 .. Len(lines) |->
                      LET cleaned == Trim(stripBlockPrefix(lines[k]))
                      IN  IF Len(cleaned) > 0 THEN Formatter("quote", cleaned, 0) ELSE <<>>])

\* result(context, insert, insert.length)
result(context, insert, cursorOffset) ==
    [from |-> context.slashFrom, to |-> context.slashTo, insert |-> insert,
     cursor |-> context.slashFrom + cursorOffset]

\* applyBulletList, applyNumberedList, applyChecklist and applyQuote
applySlashCommand(commandId, context) ==
    LET insert == IF Trim(context.preservedSelection) = <<>>
                  THEN Formatter(commandId, <<>>, 0)
                  ELSE IF commandId = "quote" THEN QuoteLines(context.preservedSelection)
                  ELSE toListLines(context.preservedSelection, commandId)
    IN  result(context, insert, Len(insert))

MaxSlashLines == 2

ListCommands == {"bullet-list", "numbered-list", "checklist", "quote"}

SlashLines ==
    {<<"O", "n", "e">>,
     <<"-", " ", "a">>,
     <<"*", " ", "a", " ", "b">>,
     <<"1", ".", " ", "a">>,
     <<"2", ".", " ", "b">>,
     <<"-", " ", "[", " ", "]", " ", "a">>,
     <<"-", " ", "[", "x", "]", " ", "b">>,
     <<">", " ", "a">>,
     <<"#", "#", " ", "a">>,
     <<" ", " ">>,
     <<>>}

SlashSelections ==
    {JoinWith(ls, eol) : ls \in SeqsUpTo(SlashLines, MaxSlashLines) \ {<<>>},
                         eol \in {<<"\n">>, <<"\r", "\n">>, <<"\r">>}}

InitSlash ==
    /\ PipelineIdle
    /\ pc = "ready"
    /\ callArgument \in [commandId : ListCommands,
                         context : [document : {<<"/">>}, slashFrom : {0}, slashTo : {1},
                                    preservedSelection : SlashSelections]]
    /\ applied = None
    /\ document = None
    /\ error = None
    /\ status = None
    /\ runtime = None
    /\ classList = None
    /\ opened = None
    /\ printActions = None
    /\ disk = None
    /\ saving = None
    /\ save = None
    /\ replace = None
    /\ replacedDocument = None
    /\ userActions = None
    /\ cosmicOpen = None
    /\ cosmicPlaying = None
    /\ cosmicIndex = None
    /\ interval = None

ApplySlashCommand ==
    /\ pc = "ready"
    /\ applied' = applySlashCommand(callArgument.commandId, callArgument.context)
    /\ pc' = "applied"
    /\ UNCHANGED <<runtime, classList, opened, printActions, disk, saving, save,
                   replace, replacedDocument, userActions, cosmicOpen, cosmicPlaying,
                   cosmicIndex, interval>>
    /\ UNCHANGED storeVars
    /\ UNCHANGED pipelineVars

NextSlash == ApplySlashCommand

SpecSlash == InitSlash /\ [][NextSlash]_vars

\* The block prefixes the claim names, and the text of a line with its block
\* prefix removed: the longest of them that starts the line.
ClaimMarkers ==
    {[k \in 1 .. n |-> "#"] : n \in 1 .. 6}
        \cup {<<">">>, <<"-">>, <<"*">>, <<"+">>}
        \cup {NumberText(n) \o <<".">> : n \in 1 .. 9}
        \cup {<<"-", " ", "[", " ", "]">>, <<"-", " ", "[", "x", "]">>}
ClaimMarkersOf(line) ==
    {m \in ClaimMarkers : /\ Len(line) > Len(m)
                          /\ SubSeq(line, 1, Len(m)) = m
                          /\ line[Len(m) + 1] \in Whitespace}
ClaimText(line) ==
    LET start == TrimStart(line)
    IN  IF ClaimMarkersOf(start) = {} THEN Trim(start)
        ELSE LET m == CHOOSE m \in ClaimMarkersOf(start) :
                          \A n \in ClaimMarkersOf(start) : Len(m) >= Len(n)
             IN  Trim(SubSeq(start, Len(m) + 1, Len(start)))
ClaimItems(lines, k) == Cardinality({j \in 1 .. k : Trim(lines[j]) # <<>>})

\* C26: for a selection that is not blank, every non-blank line becomes the
\* prefix of the command followed by the text of the line without its block
\* prefix, numbered-list counting the non-blank lines from 1, and every blank
\* line becomes an empty line.
C26_ListLines ==
    (pc = "applied" /\ Trim(callArgument.context.preservedSelection) # <<>>) =>
        LET lines   == normalizeLines(callArgument.context.preservedSelection)
            emitted == SplitOn(applied.insert, "\n", 1, <<>>, <<>>)
        IN  /\ Len(emitted) = Len(lines)
            /\ \A k \in 1 .. Len(lines) :
                  emitted[k] = IF Trim(lines[k]) = <<>> THEN <<>>
                               ELSE Formatter(callArgument.commandId, ClaimText(lines[k]),
                                              ClaimItems(lines, k) - 1)

(***************************************************************************)
(* App: saving the document and replacing it by another one.  Every await  *)
(* of a handler ends a step; the user edits between the steps.             *)
(***************************************************************************)

idleVars == <<callArgument, runtime, classList, opened, printActions, applied,
             cosmicOpen, cosmicPlaying, cosmicIndex, interval>>

\* The contents the user types; the backend reports one time for every write.
AppContents == {<<"a">>, <<"b">>}

MaxUserActions == 3

\* handleSearchHitSelect and the handlers of dropped and associated files go
\* through ensureCanReplaceDocument and openDocumentAtPath as
\* handleSidebarFileSelect does.
ReplaceHandlers == {"createNewDocument", "openFromDialog", "handleSidebarFileSelect"}

\* A user action or a timer firing starts a handler.
Acts ==
    /\ userActions < MaxUserActions
    /\ userActions' = userActions + 1

InitApp ==
    /\ PipelineIdle
    /\ pc = "mounted"
    /\ document \in {createInitialDocument,
                     loadDocument([path |-> "/p", content |-> <<"a">>, mtimeMs |-> 1], 1)}
    /\ disk = [path \in StorePaths |-> IF path = "/p" THEN <<"a">> ELSE <<"b">>]
    /\ saving = FALSE
    /\ save = None
    /\ replace = None
    /\ replacedDocument = None
    /\ error = Null
    /\ status = "Ready"
    /\ callArgument = None
    /\ runtime = None
    /\ classList = None
    /\ opened = None
    /\ printActions = None
    /\ applied = None
    /\ userActions = 0
    /\ cosmicOpen = None
    /\ cosmicPlaying = None
    /\ cosmicIndex = None
    /\ interval = None

\* onChange={setContent}
UserEdits ==
    /\ Acts
    /\ \E content \in AppContents : document' = setContent(document, content)
    /\ pc' = "setContent"
    /\ UNCHANGED <<disk, saving, save, replace, replacedDocument, error, status>>
    /\ UNCHANGED idleVars
    /\ UNCHANGED pipelineVars

\* saveDocument with saving false, up to its first await.
CallSaveDocument(forceSaveAs, reason, caller) ==
    /\ saving' = TRUE
    /\ save' = [snapshot |-> document, reason |-> reason, caller |-> caller,
                path     |-> document.path,
                stage    |-> IF ~forceSaveAs /\ document.path # Null
                             THEN "save_document" ELSE "saveDialog"]

\* The autosave effect: its timer fires for a dirty document with a path.
Autosave ==
    /\ Acts
    /\ document.path # Null
    /\ document.dirty
    /\ ~saving
    /\ CallSaveDocument(FALSE, "autosave", "effect")
    /\ pc' = "saveDocument"
    /\ UNCHANGED <<document, disk, replace, replacedDocument, error, status>>
    /\ UNCHANGED idleVars
    /\ UNCHANGED pipelineVars

\* Save and Save As from the shortcuts and the menu.
ManualSave ==
    /\ Acts
    /\ ~saving
    /\ \E forceSaveAs \in BOOLEAN : CallSaveDocument(forceSaveAs, "manual", "user")
    /\ pc' = "saveDocument"
    /\ UNCHANGED <<document, disk, replace, replacedDocument, error, status>>
    /\ UNCHANGED idleVars
    /\ UNCHANGED pipelineVars

\* What a handler does once ensureCanReplaceDocument has returned true, up to
\* its next await; doc is the document of the store at that point.
Proceeds(flow, doc) ==
    CASE flow.kind = "createNewDocument" ->
            /\ document' = createInitialDocument
            /\ replacedDocument' = [content |-> doc.content, dirty |-> doc.dirty,
                            saved |-> flow.saved, discarded |-> flow.discarded]
            /\ replace' = None
            /\ status' = "New document"
            /\ error' = Null
            /\ pc' = "newDocument"
      [] flow.kind = "openFromDialog" ->
            /\ replace' = [flow EXCEPT !.stage = "openDialog"]
            /\ pc' = "openDialog"
            /\ UNCHANGED <<document, replacedDocument, status, error>>
      [] OTHER ->
            /\ replace' = [flow EXCEPT !.stage = "open_document"]
            /\ pc' = "open_document"
            /\ UNCHANGED <<document, replacedDocument, status, error>>

\* saveDocument returns: finally setSaving(false), and the handler that
\* awaited it goes on; st and err are the status and error set before.
SaveReturns(ok, st, err) ==
    /\ saving' = FALSE
    /\ save' = None
    /\ IF save.caller = "handler" /\ ok
       THEN Proceeds(replace, document)
       ELSE /\ replace' = IF save.caller = "handler" THEN None ELSE replace
            /\ status' = st
            /\ error' = err
            /\ pc' = IF ok THEN "saved" ELSE "not saved"
            /\ UNCHANGED <<document, replacedDocument>>

\* await saveDialog(...) settles.
SaveDialogSettles ==
    /\ UNCHANGED userActions
    /\ save # None
    /\ save.stage = "saveDialog"
    /\ \/ /\ SaveReturns(FALSE, IF save.reason = "manual" THEN "Save canceled" ELSE status,
                         error)
          /\ UNCHANGED disk
       \/ /\ \E selected \in StorePaths :
                save' = [save EXCEPT !.stage = "save_as_document", !.path = selected]
          /\ pc' = "save_as_document"
          /\ UNCHANGED <<document, disk, saving, replace, replacedDocument, error,
                         status>>
    /\ UNCHANGED idleVars
    /\ UNCHANGED pipelineVars

\* await invoke("save_document" or "save_as_document") settles.
WriteSettles ==
    /\ UNCHANGED userActions
    /\ save # None
    /\ save.stage \in {"save_document", "save_as_document"}
    /\ \/ /\ disk' = [disk EXCEPT ![save.path] = save.snapshot.content]
          /\ document' = markSaved(document, [path |-> save.path, mtimeMs |-> 1,
                                              savedAtMs |-> 1])
          /\ IF save.stage = "save_document"
             THEN /\ status' = IF save.reason = "autosave" THEN "Autosaved" ELSE "Saved"
                  /\ error' = Null
                  /\ save' = [save EXCEPT !.stage = "create_snapshot"]
             ELSE /\ save' = [save EXCEPT !.stage = "store_recovery_draft"]
                  /\ UNCHANGED <<status, error>>
          /\ replace' = IF save.caller = "handler"
                        THEN [replace EXCEPT !.saved = @ \cup {save.snapshot.content}]
                        ELSE replace
          /\ pc' = "markSaved"
          /\ UNCHANGED <<saving, replacedDocument>>
       \/ /\ SaveReturns(FALSE,
                         IF save.reason = "autosave" THEN "Autosave failed" ELSE "Save failed",
                         "error")
          /\ UNCHANGED disk
    /\ UNCHANGED idleVars
    /\ UNCHANGED pipelineVars

\* After save_as_document: await invoke("store_recovery_draft") settles.
DraftSettles ==
    /\ UNCHANGED userActions
    /\ save # None
    /\ save.stage = "store_recovery_draft"
    /\ \/ /\ save' = [save EXCEPT !.stage = "create_snapshot after save as"]
          /\ pc' = "store_recovery_draft"
          /\ UNCHANGED <<document, saving, replace, replacedDocument, error, status>>
       \/ SaveReturns(FALSE, "Save failed", "error")
    /\ UNCHANGED disk
    /\ UNCHANGED idleVars
    /\ UNCHANGED pipelineVars

\* await invoke("create_snapshot") settles, either way.
SnapshotSettles ==
    /\ UNCHANGED userActions
    /\ save # None
    /\ save.stage \in {"create_snapshot", "create_snapshot after save as"}
    /\ IF save.stage = "create_snapshot"
       THEN SaveReturns(TRUE, status, error)
       ELSE SaveReturns(TRUE, "Saved", Null)
    /\ UNCHANGED disk
    /\ UNCHANGED idleVars
    /\ UNCHANGED pipelineVars

\* A handler that replaces the document, through ensureCanReplaceDocument.
\* handleSidebarFileSelect returns when the path is the one of the document.
StartReplace ==
    /\ Acts
    /\ replace = None
    /\ \E kind \in ReplaceHandlers, path \in StorePaths,
          answer \in {"save", "discard", "decline"} :
          LET flow == [kind |-> kind, path |-> path, stage |-> "ensureCanReplaceDocument",
                       saved |-> {}, discarded |-> {}]
          IN  /\ kind = "handleSidebarFileSelect" =>
                    path # document.path
              /\ IF ~document.dirty
                 THEN /\ Proceeds(flow, document)
                      /\ UNCHANGED <<saving, save>>
                 ELSE CASE answer = "save" /\ ~saving ->
                              /\ CallSaveDocument(document.path = Null, "manual", "handler")
                              /\ replace' = [flow EXCEPT !.stage = "saveDocument"]
                              /\ pc' = "saveDocument"
                              /\ UNCHANGED <<document, replacedDocument, status, error>>
                        [] answer = "save" /\ saving ->
                              /\ pc' = "not saved"
                              /\ UNCHANGED <<document, saving, save, replace,
                                             replacedDocument, status, error>>
                        [] answer = "discard" ->
                              /\ Proceeds([flow EXCEPT !.discarded = {document.content}],
                                          document)
                              /\ UNCHANGED <<saving, save>>
                        [] OTHER ->
                              /\ pc' = "declined"
                              /\ UNCHANGED <<document, saving, save, replace,
                                             replacedDocument, status, error>>
    /\ UNCHANGED disk
    /\ UNCHANGED idleVars
    /\ UNCHANGED pipelineVars

\* openFromDialog: await openDialog(...) settles.
OpenDialogSettles ==
    /\ UNCHANGED userActions
    /\ replace # None
    /\ replace.stage = "openDialog"
    /\ \/ /\ replace' = None
          /\ pc' = "open canceled"
       \/ /\ \E selected \in StorePaths :
                replace' = [replace EXCEPT !.stage = "open_document", !.path = selected]
          /\ pc' = "open_document"
    /\ UNCHANGED <<document, disk, saving, save, replacedDocument, error, status>>
    /\ UNCHANGED idleVars
    /\ UNCHANGED pipelineVars

\* openDocumentAtPath: await invoke("open_document") settles, and the store of
\* the empty recovery draft after it.
OpenSettles ==
    /\ UNCHANGED userActions
    /\ replace # None
    /\ replace.stage = "open_document"
    /\ \/ \E draftStored \in BOOLEAN :
            /\ document' = loadDocument([path |-> replace.path, content |-> disk[replace.path],
                                         mtimeMs |-> 1], 1)
            /\ replacedDocument' = [content |-> document.content, dirty |-> document.dirty,
                            saved |-> replace.saved, discarded |-> replace.discarded]
            /\ status' = IF draftStored THEN "Opened" ELSE "Could not open file"
            /\ error' = IF draftStored THEN Null ELSE "error"
            /\ pc' = "loadDocument"
       \/ /\ status' = "Could not open file"
          /\ error' = "error"
          /\ pc' = "not opened"
          /\ UNCHANGED <<document, replacedDocument>>
    /\ replace' = None
    /\ UNCHANGED <<disk, saving, save>>
    /\ UNCHANGED idleVars
    /\ UNCHANGED pipelineVars

NextApp ==
    \/ UserEdits
    \/ Autosave
    \/ ManualSave
    \/ SaveDialogSettles
    \/ WriteSettles
    \/ DraftSettles
    \/ SnapshotSettles
    \/ StartReplace
    \/ OpenDialogSettles
    \/ OpenSettles

SpecApp == InitApp /\ [][NextApp]_vars

\* C27: whenever the store shows a document with a path as not dirty, its
\* content is the content last written to that path.
C27_CleanIsWritten ==
    (document.path # Null /\ ~document.dirty) => document.content = disk[document.path]

\* C28: content with unsaved changes is replacedDocument by another document only
\* after a save of that content succeeded or the user confirmed discarding
\* it, and when the user declines both the document stays as it is.
C28_GuardedReplace ==
    /\ [](replacedDocument # None =>
             (replacedDocument.dirty => replacedDocument.content \in replacedDocument.saved \cup replacedDocument.discarded))
    /\ [][pc' = "declined" => document' = document]_vars

(***************************************************************************)
(* App: word-by-word playback.  A handler or a timer tick changes the      *)
(* state and the component renders; the effects of the render run in a     *)
(* step of their own.  The interval keeps the word count of the render     *)
(* that set it up until the effects replace it.                            *)
(***************************************************************************)

MaxWords == 3

\* The word lists of the documents, by length.
WordLists == {[k \in 1 .. n |-> <<"w">>] : n \in 0 .. MaxWords}

otherVars ==
    <<markdown, lineNumber, activeBlockIndex, rendered, html, config, previewHtml, cosmicWord,
      cosmicWordHtml, extractedFootnotes, contentBefore, dirtyHtml, cleanHtml, lastIndex,
      calls, headings, checklistProgress, document, error, callArgument, runtime, classList,
      opened, printActions, applied, disk, saving, save, replace, replacedDocument,
      userActions>>

InitCosmic ==
    /\ lastIndex = 0
    /\ pc = "mounted"
    /\ cosmicWords = <<>>
    /\ cosmicOpen = FALSE
    /\ cosmicPlaying = FALSE
    /\ cosmicIndex = 0
    /\ interval = 0
    /\ status = "Ready"
    /\ markdown = None
    /\ lineNumber = 0
    /\ activeBlockIndex = 0
    /\ rendered = None
    /\ html = None
    /\ config = None
    /\ previewHtml = None
    /\ cosmicWord = None
    /\ cosmicWordHtml = None
    /\ extractedFootnotes = None
    /\ contentBefore = None
    /\ dirtyHtml = None
    /\ cleanHtml = None
    /\ calls = None
    /\ headings = None
    /\ checklistProgress = None
    /\ document = None
    /\ error = None
    /\ callArgument = None
    /\ runtime = None
    /\ classList = None
    /\ opened = None
    /\ printActions = None
    /\ applied = None
    /\ disk = None
    /\ saving = None
    /\ save = None
    /\ replace = None
    /\ replacedDocument = None
    /\ userActions = None

\* The effect that clamps the index and the effect that sets up the interval.
Effects ==
    /\ pc \notin {"mounted", "effects"}
    /\ cosmicIndex' = IF cosmicIndex >= Len(cosmicWords)
                      THEN Max(Len(cosmicWords) - 1, 0) ELSE cosmicIndex
    /\ interval' = IF ~cosmicOpen \/ ~cosmicPlaying \/ Len(cosmicWords) = 0
                   THEN 0 ELSE Len(cosmicWords)
    /\ pc' = "effects"
    /\ UNCHANGED <<cosmicWords, cosmicOpen, cosmicPlaying, status>>
    /\ UNCHANGED otherVars

\* The callback of the interval.
Tick ==
    /\ interval > 0
    /\ IF cosmicIndex >= interval - 1
       THEN /\ cosmicPlaying' = FALSE
            /\ cosmicIndex' = interval - 1
       ELSE /\ cosmicIndex' = cosmicIndex + 1
            /\ UNCHANGED cosmicPlaying
    /\ pc' = "tick"
    /\ UNCHANGED <<cosmicWords, cosmicOpen, interval, status>>
    /\ UNCHANGED otherVars

ToggleCosmic ==
    /\ IF cosmicOpen
       THEN /\ cosmicOpen' = FALSE
            /\ cosmicPlaying' = FALSE
            /\ UNCHANGED <<cosmicIndex, status>>
       ELSE IF Len(cosmicWords) = 0
       THEN /\ status' = "No readable words in this document"
            /\ UNCHANGED <<cosmicOpen, cosmicPlaying, cosmicIndex>>
       ELSE /\ cosmicIndex' = 0
            /\ cosmicPlaying' = FALSE
            /\ cosmicOpen' = TRUE
            /\ UNCHANGED status
    /\ pc' = "toggleCosmic"
    /\ UNCHANGED <<cosmicWords, interval>>
    /\ UNCHANGED otherVars

\* onClose of the overlay
OnClose ==
    /\ cosmicOpen
    /\ cosmicOpen' = FALSE
    /\ cosmicPlaying' = FALSE
    /\ pc' = "onClose"
    /\ UNCHANGED <<cosmicWords, cosmicIndex, interval, status>>
    /\ UNCHANGED otherVars

\* onTogglePlay of the overlay and the space key
OnTogglePlay ==
    /\ cosmicOpen
    /\ Len(cosmicWords) # 0
    /\ cosmicPlaying' = ~cosmicPlaying
    /\ pc' = "onTogglePlay"
    /\ UNCHANGED <<cosmicWords, cosmicOpen, cosmicIndex, interval, status>>
    /\ UNCHANGED otherVars

\* onReset of the overlay
OnReset ==
    /\ cosmicOpen
    /\ cosmicIndex' = 0
    /\ cosmicPlaying' = FALSE
    /\ pc' = "onReset"
    /\ UNCHANGED <<cosmicWords, cosmicOpen, interval, status>>
    /\ UNCHANGED otherVars

\* onSeek of the overlay
OnSeek ==
    /\ cosmicOpen
    /\ \E index \in 0 .. MaxWords : cosmicIndex' = index
    /\ pc' = "onSeek"
    /\ UNCHANGED <<cosmicWords, cosmicOpen, cosmicPlaying, interval, status>>
    /\ UNCHANGED otherVars

\* The content of the document changes: cosmicWords is computed again.
ContentChanges ==
    /\ \E words \in WordLists \ {cosmicWords} : cosmicWords' = words
    /\ pc' = "content"
    /\ UNCHANGED <<cosmicOpen, cosmicPlaying, cosmicIndex, interval, status>>
    /\ UNCHANGED otherVars

\* The session state is loaded after mounting, before its document.
RestoreSession ==
    /\ pc = "mounted"
    /\ \E open \in BOOLEAN, playing \in BOOLEAN, index \in 0 .. MaxWords :
          /\ cosmicOpen' = open
          /\ cosmicPlaying' = playing
          /\ cosmicIndex' = index
    /\ pc' = "session"
    /\ UNCHANGED <<cosmicWords, interval, status>>
    /\ UNCHANGED otherVars

NextCosmic ==
    \/ Effects
    \/ Tick
    \/ ToggleCosmic
    \/ OnClose
    \/ OnTogglePlay
    \/ OnReset
    \/ OnSeek
    \/ ContentChanges
    \/ RestoreSession

SpecCosmic == InitCosmic /\ [][NextCosmic]_vars

\* C29: with the overlay open and playing over a non-empty word list a tick
\* advances the index by one; with the effects settled the index of the open
\* overlay is at most words.length - 1; a tick that reaches the last word
\* sets playing to false; Restart sets the index to 0 and playing to false;
\* the overlay is not opened on an empty word list.
C29_Playback ==
    /\ []((pc = "effects" /\ cosmicOpen) => cosmicIndex <= Len(cosmicWords) - 1)
    /\ [][/\ (pc' = "tick" /\ cosmicOpen /\ cosmicPlaying /\ Len(cosmicWords) > 0) =>
                cosmicIndex' = cosmicIndex + 1
          /\ (pc' = "tick" /\ cosmicIndex' = Len(cosmicWords) - 1) => ~cosmicPlaying'
          /\ pc' = "onReset" => (cosmicIndex' = 0 /\ ~cosmicPlaying')
          /\ (~cosmicOpen /\ cosmicOpen') => Len(cosmicWords) > 0]_vars

====
